---- MODULE Spec2Model ----
(***************************************************************************)
(* Outbound delivery engine of BBWAB (src/server.js): the rate limiter,    *)
(* the sent cache (idempotency), the outbound ledger, the delayed message  *)
(* queue with its 1 s poller, the retry job queue with its 2 s worker and  *)
(* the admin retry-job endpoint.                                           *)
(*                                                                         *)
(* Node runs one callback at a time: the code between two awaits that wait *)
(* on the network or on a timer is one atomic step.  An async execution    *)
(* (one webhook send, one poller tick, one worker tick) is a task; its pc  *)
(* names the await it is suspended at.                                     *)
(*                                                                         *)
(* Time is in milliseconds, as in the code; the clock is sampled every     *)
(* ClockStepMs.  The LRU caches are modelled with their ttl and without    *)
(* their capacity (1000 .. 20000 entries), and the truncated SHA-256 of    *)
(* createMessageFingerprint as the tuple it hashes (no collisions).        *)
(***************************************************************************)
EXTENDS Integers, Sequences, FiniteSets, TLC

(* ------------------------------ bounds --------------------------------- *)
ClockStepMs == 20000
MaxTasks == 3
MaxJobs == 2
\* the retry job queue: concurrent executions, requests made, jobs, clock steps
JobsTasks == 2
JobsRequests == 2
JobsJobs == 1
JobsSteps == 3
\* the send functions called directly
SendTasks == 2
SendRequests == 3
SendSteps == 3
\* the same text requested in rapid succession
RapidTasks == 3
RapidRequests == 3
RapidSteps == 2
\* the delayed message queue: overlapping poller ticks, messages queued, clock steps
QueueTasks == 2
QueueRequests == 2
QueueSteps == 3
\* the webhook feeding the delayed queue
HookTasks == 1
HookRequests == 3
HookSteps == 3
\* one retry job followed through its attempts, the clock sampled every FineStepMs,
\* JOB_MAX_RETRIES configured as BackoffRetries
FineStepMs == 1000
BackoffTasks == 1
BackoffRequests == 1
BackoffSteps == 12
BackoffRetries == 3

(* ------------------------- program constants --------------------------- *)
BUCKET_MS == 60000
RATE_LIMIT_PER_MINUTE == 2
SENT_CACHE_TTL_MS == 30000
DOC_RETRIES == 1
TEXT_IMMEDIATE_TRIES == 1
JOB_MAX_RETRIES == 2
JOB_RETRY_BASE_MS == 2000
JOB_WORKER_BATCH == 1
JOB_WORKER_INTERVAL_MS == 2000
DOC_BACKOFF_MS == 1000
GREETING_GAP_MS == 1000
PHANTOM_DELIVERY_WINDOW_MS == 120000
DEDUPE_TTL_MS == 300000

VARIABLES
  now,                  \* Date.now()
  rateLimitWindow,      \* minute bucket -> count
  sentCache,            \* fingerprint -> time of set
  outboundMessageCache, \* ledger key -> record
  messageQueue,         \* sequence of queue items, sorted by executeAt
  processingQueue,      \* set of queue item ids
  userInteractionCache, \* phone -> [sentInitial, sentFollowUp]
  dedupe,               \* webhook message id -> time of set
  surveyStateCache,     \* phone -> the survey state object kept for it
  surveyObj,            \* the survey state objects made so far, by reference
  jobs,                 \* the Map's keys, in insertion order
  jobObj,               \* job id -> the job object (lives on while a task holds it)
  jobCounter,
  queueCounter,         \* number of queue items created (their ids)
  tasks,                \* task id -> the suspended async execution
  calls,                \* history: the gateway HTTP calls made, in order
  accepted,             \* history: message -> time the gateway last accepted it
  trail,                \* history: what happened to jobs and queue items
  requests,             \* history: the number of requests the environment made
  scope                 \* what this run covers: its limits, the history it keeps, the
                        \* configured JOB_MAX_RETRIES, the clock's sampling step, and
                        \* the values of normalizePhone, computed once

vars == <<now, rateLimitWindow, sentCache, outboundMessageCache, messageQueue,
          processingQueue, userInteractionCache, dedupe, surveyStateCache, surveyObj, jobs, jobObj, jobCounter,
          queueCounter, tasks, calls, accepted, trail, requests, scope>>

(* ------------------------------ values --------------------------------- *)
Phone == "911234567890"

TextHello == [to |-> Phone, type |-> "text", body |-> "Hello", media |-> ""]
TextEmoji == [to |-> Phone, type |-> "text", body |-> "emoji", media |-> ""]
DocTv     == [to |-> Phone, type |-> "document", body |-> "", media |-> "tv"]

\* what sendGreetingAndPDF sends: `${greeting} ${INTRO_TEXT}`, the combined PDF,
\* and the combined PDF with the greeting (or INTRO_TEXT) as its caption
GreetingText(phone, greeting) == [to |-> phone, type |-> "text", body |-> greeting, media |-> ""]
CombinedDoc(phone) == [to |-> phone, type |-> "document", body |-> "", media |-> "combined"]
DirectPdf(phone, greeting) ==
  [to |-> phone, type |-> "document", body |-> IF greeting = "" THEN "intro" ELSE greeting,
   media |-> "combined"]
EmojiText(phone, emoji) == [to |-> phone, type |-> "text", body |-> emoji, media |-> ""]
NoMsg     == [to |-> "", type |-> "", body |-> "", media |-> ""]

TextMsgs == {TextHello, TextEmoji}
DocMsgs  == {DocTv}

\* HTTP results of axios.post: "ok" (2xx), a status it rejects with, or "e0"
\* (timeout / network error: no response object).
HttpResults == {"ok", "e500", "e401", "e403", "e0"}

\* s && [401, 403].includes(s)
IsFatal(res) == res \in {"e401", "e403"}

\* what a send function gives its caller
Returned(res) == res \in {"ok", "skipped"}

\* The characters of the strings that stand for phone numbers and addresses
\* here; "" also stands for the null normalizePhone returns.
Chars(s) ==
  CASE s = "911234567890" -> <<"9", "1", "1", "2", "3", "4", "5", "6", "7", "8", "9", "0">>
    [] s = "+91 12345-67890" ->
         <<"+", "9", "1", " ", "1", "2", "3", "4", "5", "-", "6", "7", "8", "9", "0">>
    [] s = " 911234567890 " ->
         <<" ", "9", "1", "1", "2", "3", "4", "5", "6", "7", "8", "9", "0", " ">>
    [] s = "911234567891" -> <<"9", "1", "1", "2", "3", "4", "5", "6", "7", "8", "9", "1">>
    [] s = "12345678" -> <<"1", "2", "3", "4", "5", "6", "7", "8">>
    [] s = "911234567890@c.us" ->
         <<"9", "1", "1", "2", "3", "4", "5", "6", "7", "8", "9", "0", "@", "c", ".", "u", "s">>
    [] s = "+91 12345-67890@c.us" ->
         <<"+", "9", "1", " ", "1", "2", "3", "4", "5", "-", "6", "7", "8", "9", "0",
           "@", "c", ".", "u", "s">>
    [] s = "@c.us" -> <<"@", "c", ".", "u", "s">>
    [] s = "" -> <<>>

\* the string that stands for the characters a normalizePhone result has
Str(chars) ==
  CASE chars = Chars("911234567890") -> "911234567890"
    [] chars = Chars("911234567891") -> "911234567891"
    [] chars = Chars("911234567890@c.us") -> "911234567890@c.us"
    [] chars = <<>> -> ""

Digit == {"0", "1", "2", "3", "4", "5", "6", "7", "8", "9"}
WhiteSpace == {" "}

\* String.prototype.trim
RECURSIVE trimStart(_)
trimStart(s) == IF s # <<>> /\ Head(s) \in WhiteSpace THEN trimStart(Tail(s)) ELSE s

RECURSIVE trimEnd(_)
trimEnd(s) ==
  IF s # <<>> /\ s[Len(s)] \in WhiteSpace THEN trimEnd(SubSeq(s, 1, Len(s) - 1)) ELSE s

trim(s) == trimEnd(trimStart(s))

\* s.replace(/\D+/g, "")
digitsOf(s) == SelectSeq(s, LAMBDA c : c \in Digit)

\* the body of normalizePhone, on the characters of raw; <<>> is the null it
\* returns for a string it rejects
normalizePhoneChars(raw) ==
  IF raw = <<>> THEN <<>>
  ELSE LET r == trim(raw)
           digits == digitsOf(r)
       IN IF \E i \in 1..Len(r) : r[i] = "@"
          THEN LET at == CHOOSE i \in 1..Len(r) : r[i] = "@" /\ \A j \in 1..(i - 1) : r[j] # "@"
                   user == digitsOf(SubSeq(r, 1, at - 1))
                   domain == SubSeq(r, at + 1, Len(r))
               IN IF user = <<>> THEN <<>> ELSE user \o <<"@">> \o domain
          ELSE IF Len(digits) >= 9 THEN digits ELSE <<>>

\* the strings that stand for phone numbers and addresses here
PhoneStrings ==
  {"", "911234567890", "+91 12345-67890", " 911234567890 ", "911234567891", "12345678",
   "911234567890@c.us", "+91 12345-67890@c.us", "@c.us"}

\* normalizePhone applied to each of them: a run computes this once, at its
\* start, and keeps it in scope.normalized
NormalizedPhones == [s \in PhoneStrings |-> Str(normalizePhoneChars(Chars(s)))]

\* normalizePhone(raw), looked up in what the run computed at its start
normalizePhone(raw) == scope.normalized[raw]

createMessageFingerprint(to, content, type) ==
  [to        |-> normalizePhone(to),
   content   |-> IF type = "text" THEN <<content.body>>
                 ELSE IF content.media # "" THEN <<content.media>>
                 ELSE IF content.body # "" THEN <<content.body>>
                 ELSE <<"json", content>>,
   type      |-> type,
   timestamp |-> now \div BUCKET_MS]

NoFp == [to |-> "", content |-> <<>>, type |-> "", timestamp |-> 0]

(* ------------------------------- store --------------------------------- *)
\* The shared state one synchronous stretch of code reads and writes.
Store ==
  [rate |-> rateLimitWindow, sent |-> sentCache, out |-> outboundMessageCache,
   mq |-> messageQueue, pq |-> processingQueue, users |-> userInteractionCache,
   dedupe |-> dedupe, survey |-> surveyStateCache, sobj |-> surveyObj,
   jobs |-> jobs, obj |-> jobObj, jobCounter |-> jobCounter,
   calls |-> calls, accepted |-> accepted, trail |-> trail]

Commit(S) ==
  /\ rateLimitWindow' = S.rate
  /\ sentCache' = S.sent
  /\ outboundMessageCache' = S.out
  /\ messageQueue' = S.mq
  /\ processingQueue' = S.pq
  /\ userInteractionCache' = S.users
  /\ dedupe' = S.dedupe
  /\ surveyStateCache' = S.survey
  /\ surveyObj' = S.sobj
  /\ jobs' = S.jobs
  /\ jobObj' = S.obj
  /\ jobCounter' = S.jobCounter
  /\ calls' = S.calls
  /\ accepted' = S.accepted
  /\ trail' = S.trail

\* f with f[k] set to v (k added to the domain when absent)
Put(f, k, v) == [x \in DOMAIN f \cup {k} |-> IF x = k THEN v ELSE f[x]]

\* sentCache.get(fingerprint): an entry older than the ttl is stale
sentCacheGet(S, fp) ==
  /\ fp \in DOMAIN S.sent
  /\ now - S.sent[fp] <= SENT_CACHE_TTL_MS

\* sentCache.set(fingerprint, true)
sentCacheSet(S, fp) == [S EXCEPT !.sent = Put(S.sent, fp, now)]

\* history: the gateway accepted msg now
LogAccept(S, msg) ==
  IF ~scope.calls THEN S ELSE [S EXCEPT !.accepted = Put(S.accepted, msg, now)]

\* a limiter that counts the requests it refuses as well
checkRateLimit_CountsRefusals(S) ==
  LET currentMinute == now \div BUCKET_MS
      currentCount == IF currentMinute \in DOMAIN S.rate THEN S.rate[currentMinute] ELSE 0
      S1 == [S EXCEPT !.rate = Put(S.rate, currentMinute, currentCount + 1)]
  IN [ok |-> currentCount < RATE_LIMIT_PER_MINUTE, S |-> S1]

checkRateLimit(S) ==
  LET currentMinute == now \div BUCKET_MS
      currentCount == IF currentMinute \in DOMAIN S.rate THEN S.rate[currentMinute] ELSE 0
  IN IF currentCount >= RATE_LIMIT_PER_MINUTE
     THEN [ok |-> FALSE, S |-> S]
     ELSE [ok |-> TRUE, S |-> [S EXCEPT !.rate = Put(S.rate, currentMinute, currentCount + 1)]]

\* history: one gateway HTTP call.  acquire: "granted" (checkRateLimit returned
\* true for it), "denied" (it returned false for this attempt) or "none".
\* dup: the gateway accepted the same message less than the sent-cache ttl ago.
\* marked: the sent cache has the message's fingerprint when the call is made.
LogCall(S, T, msg, enc, acquire) ==
  IF ~scope.calls THEN S ELSE
  [S EXCEPT !.calls = Append(S.calls,
     [msg |-> msg, at |-> now, enc |-> enc, path |-> T.path, acquire |-> acquire,
      dup |-> (msg \in DOMAIN S.accepted /\ now - S.accepted[msg] < SENT_CACHE_TTL_MS),
      marked |-> sentCacheGet(S, createMessageFingerprint(msg.to, msg, msg.type))])]

outboundSet(S, key, fp, failed) ==
  [S EXCEPT !.out = Put(S.out, key, [fingerprint |-> fp, timestamp |-> now, failed |-> failed])]

\* outboundMessageCache.get(key): an entry older than the ttl is stale
outboundGet(S, key) ==
  /\ key \in DOMAIN S.out
  /\ now - S.out[key].timestamp <= PHANTOM_DELIVERY_WINDOW_MS

TextKey(msg) == <<"out", msg.to, "text", msg.body>>
DocKey(msg)  == <<"out", msg.to, "doc", msg.media>>

(* --------------------------- send functions ---------------------------- *)
\* Each send function is cut at its await of axios.post: Begin runs up to the
\* call (r = "pending": the call is made), End runs from the response on.

\* sendTextOnce, up to the await
sendTextOnceBegin(S, T, msg) ==
  LET fingerprint == createMessageFingerprint(msg.to, msg, "text")
      rl == checkRateLimit(S)
  IN IF sentCacheGet(S, fingerprint) THEN [S |-> S, r |-> "skipped", fp |-> fingerprint]
     ELSE IF ~rl.ok THEN [S |-> rl.S, r |-> "ratelimited", fp |-> fingerprint]
     ELSE [S |-> LogCall(rl.S, T, msg, "text", "granted"), r |-> "pending", fp |-> fingerprint]

\* sendTextOnce, from the response on: the result it returns or throws
sendTextOnceEnd(S, msg, fingerprint, res) ==
  IF res = "ok"
  THEN outboundSet(sentCacheSet(S, fingerprint), TextKey(msg), fingerprint, FALSE)
  ELSE outboundSet(S, TextKey(msg), fingerprint, TRUE)

sendDocumentJsonOnceBegin(S, T, msg) ==
  LET fingerprint == createMessageFingerprint(msg.to, msg, "document")
      rl == checkRateLimit(S)
  IN IF sentCacheGet(S, fingerprint) THEN [S |-> S, r |-> "skipped", fp |-> fingerprint]
     ELSE IF ~rl.ok THEN [S |-> rl.S, r |-> "ratelimited", fp |-> fingerprint]
     ELSE [S |-> LogCall(rl.S, T, msg, "json", "granted"), r |-> "pending", fp |-> fingerprint]

sendDocumentJsonOnceEnd(S, msg, fingerprint, res) ==
  IF res = "ok"
  THEN outboundSet(sentCacheSet(S, fingerprint), DocKey(msg), fingerprint, FALSE)
  ELSE outboundSet(S, DocKey(msg), fingerprint, TRUE)

\* sendDocumentMultipartOnce: no checkRateLimit, no ledger write.  jsonDenied
\* tells the history whether the JSON try of this round was refused by the limiter.
sendDocumentMultipartOnceBegin(S, T, msg, jsonDenied) ==
  LET fingerprint == createMessageFingerprint(msg.to, msg, "document")
  IN IF sentCacheGet(S, fingerprint) THEN [S |-> S, r |-> "skipped", fp |-> fingerprint]
     ELSE [S |-> LogCall(S, T, msg, "multipart", IF jsonDenied THEN "denied" ELSE "none"),
           r |-> "pending", fp |-> fingerprint]

sendDocumentMultipartOnceEnd(S, msg, fingerprint, res) ==
  IF res = "ok" THEN sentCacheSet(S, fingerprint) ELSE S

(* ------------------------- sendDocumentRobust -------------------------- *)
\* The result of running sendDocumentRobust up to its next await or its end:
\* k = "await" (pc: the call or sleep it waits on), "return" or "throw" (res).
Outcome(S, k, pc, fp, round, res) ==
  [S |-> S, k |-> k, pc |-> pc, fp |-> fp, round |-> round, res |-> res]

\* a loop that goes one round further than DOC_RETRIES
RobustAfterMultipart_ExtraRound(S, round, fp, res) ==
  IF Returned(res) THEN Outcome(S, "return", "free", fp, round, res)
  ELSE IF IsFatal(res) THEN Outcome(S, "throw", "free", fp, round, res)
  ELSE IF round <= DOC_RETRIES THEN Outcome(S, "await", "sleep", fp, round, res)
  ELSE Outcome(S, "throw", "free", fp, round, res)

\* after the multipart try of a round gave res
RobustAfterMultipart(S, round, fp, res) ==
  IF Returned(res) THEN Outcome(S, "return", "free", fp, round, res)
  ELSE IF IsFatal(res) THEN Outcome(S, "throw", "free", fp, round, res)
  ELSE IF round < DOC_RETRIES THEN Outcome(S, "await", "sleep", fp, round, res)
  ELSE Outcome(S, "throw", "free", fp, round, res)

\* a sendDocumentRobust that falls back to multipart after every JSON failure
RobustAfterJson_AlwaysFallback(S, T, msg, round, fp, res) ==
  IF Returned(res) THEN Outcome(S, "return", "free", fp, round, res)
  ELSE LET m == sendDocumentMultipartOnceBegin(S, T, msg, res = "ratelimited")
       IN IF m.r = "pending" THEN Outcome(m.S, "await", "multipart", m.fp, round, res)
          ELSE IF Returned(m.r) THEN Outcome(m.S, "return", "free", m.fp, round, m.r)
          ELSE Outcome(m.S, "throw", "free", m.fp, round, m.r)

\* after the JSON try of a round gave res: return, rethrow a fatal error, or
\* fall back to multipart
RobustAfterJson(S, T, msg, round, fp, res) ==
  IF Returned(res) THEN Outcome(S, "return", "free", fp, round, res)
  ELSE IF IsFatal(res) THEN Outcome(S, "throw", "free", fp, round, res)
  ELSE LET m == sendDocumentMultipartOnceBegin(S, T, msg, res = "ratelimited")
       IN IF m.r = "pending" THEN Outcome(m.S, "await", "multipart", m.fp, round, res)
          ELSE RobustAfterMultipart(m.S, round, m.fp, m.r)

\* one round of the for loop, from its top
RobustRound(S, T, msg, round) ==
  LET j == sendDocumentJsonOnceBegin(S, T, msg)
  IN IF j.r = "pending" THEN Outcome(j.S, "await", "json", j.fp, round, "")
     ELSE RobustAfterJson(j.S, T, msg, round, j.fp, j.r)

\* sendTextOnce run up to its await or its end, in the same shape
TextRun(S, T, msg) ==
  LET b == sendTextOnceBegin(S, T, msg)
  IN IF b.r = "pending" THEN Outcome(b.S, "await", "text", b.fp, 0, "")
     ELSE IF b.r = "skipped" THEN Outcome(b.S, "return", "free", b.fp, 0, b.r)
     ELSE Outcome(b.S, "throw", "free", b.fp, 0, b.r)

\* a send function resumed by the response res to the call task T waits on
Resume(S0, T, res) ==
  LET S == IF res = "ok" THEN LogAccept(S0, T.msg) ELSE S0 IN
  CASE T.pc = "text" ->
         LET S1 == sendTextOnceEnd(S, T.msg, T.fp, res)
         IN Outcome(S1, IF res = "ok" THEN "return" ELSE "throw", "free", T.fp, 0, res)
    [] T.pc = "json" ->
         RobustAfterJson(sendDocumentJsonOnceEnd(S, T.msg, T.fp, res), T, T.msg, T.round, T.fp, res)
    [] T.pc = "multipart" ->
         RobustAfterMultipart(sendDocumentMultipartOnceEnd(S, T.msg, T.fp, res), T.round, T.fp, res)
    [] T.pc = "direct" ->
         Outcome(S, IF res = "ok" THEN "return" ELSE "throw", "free", T.fp, 0, res)

(* ----------------------------- job queue ------------------------------- *)
\* jobs.set(job.id, job): a key already in the Map keeps its place
jobsSet(S, id) ==
  IF \E i \in 1..Len(S.jobs) : S.jobs[i] = id THEN S
  ELSE [S EXCEPT !.jobs = Append(S.jobs, id)]

jobsDelete(S, id) == [S EXCEPT !.jobs = SelectSeq(S.jobs, LAMBDA j : j # id)]

jobsHas(S, id) == \E i \in 1..Len(S.jobs) : S.jobs[i] = id

\* makeJobId and addJob, with the job object the callers build; cause (history)
\* is the error of the first attempt that made the caller queue the job
addJob(S, type, msg, fingerprint, cause) ==
  LET id == S.jobCounter + 1
      job == [type |-> type, msg |-> msg, fingerprint |-> fingerprint, attempts |-> 0,
              maxAttempts |-> scope.maxRetries, nextAttemptAt |-> now + JOB_RETRY_BASE_MS,
              locked |-> FALSE]
  IN [S EXCEPT !.jobCounter = id, !.obj = Put(S.obj, id, job), !.jobs = Append(S.jobs, id),
               !.trail.origin = Put(S.trail.origin, id, cause)]

\* a selection that takes unlocked jobs whether they are due or not
ready_Unlocked(S) ==
  LET free == SelectSeq(S.jobs, LAMBDA j : ~S.obj[j].locked)
  IN SubSeq(free, 1, IF Len(free) < JOB_WORKER_BATCH THEN Len(free) ELSE JOB_WORKER_BATCH)

\* the worker's selection: due and unlocked, the first JOB_WORKER_BATCH of them
ready(S) ==
  LET due == SelectSeq(S.jobs, LAMBDA j : S.obj[j].nextAttemptAt <= now /\ ~S.obj[j].locked)
  IN SubSeq(due, 1, IF Len(due) < JOB_WORKER_BATCH THEN Len(due) ELSE JOB_WORKER_BATCH)

\* history: an execution of job id ended with res
LogJobEnd(S, S1, id, res) ==
  [S1 EXCEPT !.trail.lastEnd =
               [job |-> id, res |-> res,
                counted |-> S1.obj[id].attempts # S.obj[id].attempts,
                backedOff |-> S1.obj[id].nextAttemptAt # S.obj[id].nextAttemptAt,
                removed |-> ~jobsHas(S1, id),
                delay |-> IF jobsHas(S1, id) THEN S1.obj[id].nextAttemptAt - now ELSE 0],
             !.trail.fatal = IF IsFatal(res) THEN S.trail.fatal \cup {id} ELSE S.trail.fatal]

\* a catch block that makes the job due again at once
jobCatch_NoDelay(S, id) ==
  LET attempts == S.obj[id].attempts + 1
      S1 == [S EXCEPT !.obj[id].attempts = attempts, !.obj[id].locked = FALSE]
  IN IF attempts >= S.obj[id].maxAttempts THEN jobsDelete(S1, id)
     ELSE jobsSet([S1 EXCEPT !.obj[id].nextAttemptAt = now], id)

\* a catch block that waits the base delay after every failure
jobCatch_FixedDelay(S, id) ==
  LET attempts == S.obj[id].attempts + 1
      S1 == [S EXCEPT !.obj[id].attempts = attempts, !.obj[id].locked = FALSE]
  IN IF attempts >= S.obj[id].maxAttempts THEN jobsDelete(S1, id)
     ELSE jobsSet([S1 EXCEPT !.obj[id].nextAttemptAt = now + JOB_RETRY_BASE_MS], id)

\* a catch block that reschedules the job and leaves it locked
jobCatch_KeepLock(S, id) ==
  LET attempts == S.obj[id].attempts + 1
      S1 == [S EXCEPT !.obj[id].attempts = attempts]
      backoff == JOB_RETRY_BASE_MS * 2 ^ (attempts - 1)
  IN IF attempts >= S.obj[id].maxAttempts THEN jobsDelete(S1, id)
     ELSE jobsSet([S1 EXCEPT !.obj[id].nextAttemptAt = now + backoff], id)

\* the worker's catch block
jobCatch(S, id) ==
  LET attempts == S.obj[id].attempts + 1
      S1 == [S EXCEPT !.obj[id].attempts = attempts, !.obj[id].locked = FALSE]
      backoff == JOB_RETRY_BASE_MS * 2 ^ (attempts - 1)
  IN IF attempts >= S.obj[id].maxAttempts THEN jobsDelete(S1, id)
     ELSE jobsSet([S1 EXCEPT !.obj[id].nextAttemptAt = now + backoff], id)

\* the worker after its send returned (k = "return") or threw (k = "throw")
jobFinish(S, id, k, res) ==
  LogJobEnd(S, IF k = "return" THEN jobsDelete(S, id) ELSE jobCatch(S, id), id, res)

(* ------------------------------- tasks --------------------------------- *)
TaskIds == 1..MaxTasks

NoItem == [id |-> 0, phoneNumber |-> "", messageType |-> "", greeting |-> "", directPDF |-> FALSE,
           emoji |-> "", executeAt |-> 0]

FreeTask == [path |-> "none", pc |-> "free", msg |-> NoMsg, fp |-> NoFp, round |-> 0,
             job |-> 0, wake |-> 0, item |-> NoItem, rest |-> <<>>, lastErr |-> ""]

NewTask(path, msg, job) == [FreeTask EXCEPT !.path = path, !.msg = msg, !.job = job]

IsFree(t) == tasks[t].pc = "free"

\* a new execution takes the first free slot
Slot(t) == t <= scope.tasks /\ IsFree(t) /\ \A u \in TaskIds : u < t => ~IsFree(u)

\* task T suspended where the outcome o says
Suspend(T, o) ==
  [T EXCEPT !.pc = o.pc, !.fp = o.fp, !.round = o.round, !.lastErr = o.res,
            !.wake = IF o.pc = "sleep" THEN now + DOC_BACKOFF_MS * 2 ^ o.round ELSE 0]

\* what the caller of the send function does when it returned or threw: o.k is
\* "return" or "throw".  Gives the store.
PathFinish(T, o) ==
  CASE T.path \in {"sendText", "adminDoc"} -> o.S
    [] T.path = "textOrQueue" ->
         IF o.k = "throw" /\ ~IsFatal(o.res) THEN addJob(o.S, "text", T.msg, o.fp, o.res) ELSE o.S
    [] T.path = "webhookDoc" ->
         IF o.k = "throw"
         THEN addJob(o.S, "doc", T.msg, createMessageFingerprint(T.msg.to, T.msg, "document"), o.res)
         ELSE o.S
    [] T.path = "job" -> jobFinish(o.S, T.job, o.k, o.res)

(* ------------------------ delayed message queue ----------------------- *)
\* a markUserContacted that records the initial contact only
markUserContacted_InitialOnly(S, phoneNumber, interactionType) ==
  LET userKey == normalizePhone(phoneNumber)
      userData == IF userKey \in DOMAIN S.users THEN S.users[userKey]
                  ELSE [sentInitial |-> FALSE, sentFollowUp |-> FALSE]
  IN [S EXCEPT !.users = Put(S.users, userKey,
        [sentInitial |-> userData.sentInitial \/ interactionType = "initial",
         sentFollowUp |-> userData.sentFollowUp])]

\* markUserContacted(phoneNumber, 'initial' | 'followup')
markUserContacted(S, phoneNumber, interactionType) ==
  LET userKey == normalizePhone(phoneNumber)
      userData == IF userKey \in DOMAIN S.users THEN S.users[userKey]
                  ELSE [sentInitial |-> FALSE, sentFollowUp |-> FALSE]
  IN [S EXCEPT !.users = Put(S.users, userKey,
        [sentInitial |-> userData.sentInitial \/ interactionType = "initial",
         sentFollowUp |-> userData.sentFollowUp \/ interactionType = "followup"])]

\* a queueMessage that pushes and does not sort
Sorted_PushOnly(q, item) == Append(q, item)

\* the place Array.prototype.sort (stable) gives a new item: after every item
\* whose executeAt is not later
RECURSIVE Sorted(_, _)
Sorted(q, item) ==
  IF q = <<>> THEN <<item>>
  ELSE IF Head(q).executeAt <= item.executeAt THEN <<Head(q)>> \o Sorted(Tail(q), item)
  ELSE <<item>> \o q

\* executeQueuedMessage(msg) up to its first await or its end, for the task T
\* whose item it is
Execute(S, T) ==
  LET it == T.item IN
  IF it.messageType = "emoji_response" THEN TextRun(S, T, T.msg)
  ELSE IF it.directPDF
       THEN Outcome(LogCall(S, T, T.msg, "direct", "granted"), "await", "direct", NoFp, 0, "")
  ELSE IF it.greeting # "" THEN TextRun(S, T, T.msg)
  ELSE RobustRound(S, T, T.msg, 0)

\* the first message executeQueuedMessage sends for a queue item
FirstMsg(it) ==
  IF it.messageType = "emoji_response" THEN EmojiText(it.phoneNumber, it.emoji)
  ELSE IF it.directPDF THEN DirectPdf(it.phoneNumber, it.greeting)
  ELSE IF it.greeting # "" THEN GreetingText(it.phoneNumber, it.greeting)
  ELSE CombinedDoc(it.phoneNumber)

\* sendGreetingAndPDF has sent its greeting text and goes on to the PDF
GreetingSent(T, o) ==
  /\ T.item.messageType = "greeting_and_pdf"
  /\ T.msg.type = "text"
  /\ o.k = "return"

\* the poller is done with T's item: markUserContacted when sendGreetingAndPDF
\* got to its end, processingQueue.delete in the finally.  History: an item that
\* was taken out and dropped on the rate-limit error, with no call made for it.
ItemEnd(S, T, o) ==
  LET S1 == IF T.item.messageType = "greeting_and_pdf" /\ o.k = "return"
            THEN markUserContacted(S, T.item.phoneNumber, "initial") ELSE S
  IN [S1 EXCEPT !.pq = S1.pq \ {T.item.id},
                !.trail.lost = IF o.k = "throw" /\ o.res = "ratelimited"
                               THEN S.trail.lost \cup {T.item.id} ELSE S.trail.lost]

RECURSIVE PollerLoop(_, _)
RECURSIVE ItemStep(_, _)

\* the poller's for loop over the rest of its readyMessages, up to its next
\* await or its end: the store and the task
PollerLoop(S, T) ==
  IF T.rest = <<>> THEN [S |-> S, T |-> FreeTask]
  ELSE LET msg == Head(T.rest)
           rl == checkRateLimit(S)
           S1 == [rl.S EXCEPT !.pq = rl.S.pq \cup {msg.id},
                              !.mq = SelectSeq(rl.S.mq, LAMBDA m : m.id # msg.id),
                              !.trail.runs = Put(rl.S.trail.runs, msg.id,
                                 IF msg.id \in DOMAIN rl.S.trail.runs
                                 THEN rl.S.trail.runs[msg.id] + 1 ELSE 1)]
           T1 == [T EXCEPT !.item = msg, !.rest = Tail(T.rest), !.msg = FirstMsg(msg),
                           !.round = 0, !.fp = NoFp]
       IN IF ~rl.ok THEN [S |-> S, T |-> FreeTask]
          ELSE ItemStep(T1, Execute(S1, T1))

\* a poller with no try/catch around executeQueuedMessage: the error rejects
\* the promise of the setInterval callback, nothing handles it and the process
\* ends, its in-memory queues with it
ItemStep_Uncaught(T, o) ==
  IF o.k = "await" THEN [S |-> o.S, T |-> Suspend(T, o)]
  ELSE IF o.k = "throw"
       THEN [S |-> [o.S EXCEPT !.mq = <<>>, !.pq = {}, !.jobs = <<>>], T |-> FreeTask]
  ELSE IF GreetingSent(T, o)
       THEN [S |-> o.S, T |-> [T EXCEPT !.pc = "gap", !.wake = now + GREETING_GAP_MS,
                                       !.msg = CombinedDoc(T.item.phoneNumber)]]
  ELSE PollerLoop(ItemEnd(o.S, T, o), T)

\* the poller after the send it ran for T's item reached outcome o
ItemStep(T, o) ==
  IF o.k = "await" THEN [S |-> o.S, T |-> Suspend(T, o)]
  ELSE IF GreetingSent(T, o)
       THEN [S |-> o.S, T |-> [T EXCEPT !.pc = "gap", !.wake = now + GREETING_GAP_MS,
                                       !.msg = CombinedDoc(T.item.phoneNumber)]]
  ELSE PollerLoop(ItemEnd(o.S, T, o), T)

\* an execution that reached outcome o: suspended at an await, or over
Settle(t, T, o) ==
  IF T.path = "queue"
  THEN /\ tasks' = [tasks EXCEPT ![t] = ItemStep(T, o).T]
       /\ Commit(ItemStep(T, o).S)
  ELSE IF o.k = "await"
  THEN /\ tasks' = [tasks EXCEPT ![t] = Suspend(T, o)]
       /\ Commit(o.S)
  ELSE /\ tasks' = [tasks EXCEPT ![t] = FreeTask]
       /\ Commit(PathFinish(T, o))

\* requests the environment may still make
CanRequest == requests < scope.requests

\* the jobs that exist or that a running first attempt may still create
CanCreateJob ==
  jobCounter + Cardinality({t \in TaskIds : tasks[t].path \in {"textOrQueue", "webhookDoc"}}) < scope.jobs

(* ------------------------------ actions -------------------------------- *)
\* webhook: (async () => { try { await sendTextOnce(...) } catch { log } })()
SendText(t, msg) ==
  /\ Slot(t) /\ CanRequest
  /\ Settle(t, NewTask("sendText", msg, 0), TextRun(Store, NewTask("sendText", msg, 0), msg))
  /\ requests' = requests + 1
  /\ UNCHANGED <<now, queueCounter, scope>>

\* sendTextRobustOrQueue(toPhone, body)
SendTextRobustOrQueue(t, msg) ==
  /\ Slot(t) /\ CanRequest /\ CanCreateJob
  /\ Settle(t, NewTask("textOrQueue", msg, 0), TextRun(Store, NewTask("textOrQueue", msg, 0), msg))
  /\ requests' = requests + 1
  /\ UNCHANGED <<now, queueCounter, scope>>

\* webhook: sendDocumentRobust in the background, addJob when it throws
WebhookDoc(t, msg) ==
  /\ Slot(t) /\ CanRequest /\ CanCreateJob
  /\ Settle(t, NewTask("webhookDoc", msg, 0), RobustRound(Store, NewTask("webhookDoc", msg, 0), msg, 0))
  /\ requests' = requests + 1
  /\ UNCHANGED <<now, queueCounter, scope>>

\* POST /admin/send-doc: await sendDocumentRobust(to, media, name)
AdminSendDoc(t, msg) ==
  /\ Slot(t) /\ CanRequest
  /\ Settle(t, NewTask("adminDoc", msg, 0), RobustRound(Store, NewTask("adminDoc", msg, 0), msg, 0))
  /\ requests' = requests + 1
  /\ UNCHANGED <<now, queueCounter, scope>>

\* a worker that does not look at the sent cache before it sends
jobAlreadySent_Never(S, job) == FALSE

\* the worker's idempotency re-check: sentCache.get(job.fingerprint)
jobAlreadySent(S, job) == sentCacheGet(S, job.fingerprint)

\* one tick of the job worker (setInterval, 2 s)
JobWorkerTick(t) ==
  /\ Slot(t)
  /\ Len(ready(Store)) > 0
  /\ LET id == ready(Store)[1]
         job == jobObj[id]
         T == NewTask("job", job.msg, id)
         S1 == jobsSet([Store EXCEPT !.obj[id].locked = TRUE,
                                     !.trail.starts = Put(Store.trail.starts, id,
                                        IF id \in DOMAIN Store.trail.starts
                                        THEN Store.trail.starts[id] + 1 ELSE 1),
                                     !.trail.begun = IF scope.times
                                        THEN Append(Store.trail.begun, [job |-> id, at |-> now])
                                        ELSE Store.trail.begun], id)
     IN IF jobAlreadySent(S1, job)
        THEN /\ Commit(jobsDelete(S1, id))
             /\ UNCHANGED tasks
        ELSE Settle(t, T, IF job.type = "doc" THEN RobustRound(S1, T, job.msg, 0)
                          ELSE TextRun(S1, T, job.msg))
  /\ UNCHANGED <<now, queueCounter, requests, scope>>

\* a retry-job operation that also gives the job its attempts back
AdminRetryJob_ResetAttempts(id) ==
  /\ jobsHas(Store, id)
  /\ jobObj' = [jobObj EXCEPT ![id].nextAttemptAt = now, ![id].locked = FALSE,
                              ![id].attempts = 0]
  /\ UNCHANGED <<now, rateLimitWindow, sentCache, outboundMessageCache, messageQueue,
                 processingQueue, userInteractionCache, dedupe, surveyStateCache, surveyObj,
                 jobs, jobCounter, queueCounter, tasks, calls, accepted, trail, requests,
                 scope>>

\* POST /admin/retry-job?jobId=id
AdminRetryJob(id) ==
  /\ jobsHas(Store, id)
  /\ jobObj' = [jobObj EXCEPT ![id].nextAttemptAt = now, ![id].locked = FALSE]
  /\ UNCHANGED <<now, rateLimitWindow, sentCache, outboundMessageCache, messageQueue,
                 processingQueue, userInteractionCache, dedupe, surveyStateCache, surveyObj, jobs, jobCounter, queueCounter,
                 tasks, calls, accepted, trail, requests, scope>>

\* the gateway answers (or times out) the call task t waits on
HttpResponse(t, res) ==
  /\ tasks[t].pc \in {"text", "json", "multipart", "direct"}
  /\ Settle(t, tasks[t], Resume(Store, tasks[t], res))
  /\ UNCHANGED <<now, queueCounter, requests, scope>>

\* sendDocumentRobust's sleep(backoff) is over: the next round
SleepDone(t) ==
  /\ tasks[t].pc = "sleep"
  /\ now >= tasks[t].wake
  /\ Settle(t, tasks[t], RobustRound(Store, tasks[t], tasks[t].msg, tasks[t].round + 1))
  /\ UNCHANGED <<now, queueCounter, requests, scope>>

\* queueMessage(phoneNumber, messageType, data), with the delay getRandomDelay drew
QueueMessage(phoneNumber, messageType, greeting, directPDF, emoji, delay) ==
  /\ CanRequest
  /\ messageQueue' = Sorted(messageQueue,
        [id |-> queueCounter + 1, phoneNumber |-> phoneNumber, messageType |-> messageType,
         greeting |-> greeting, directPDF |-> directPDF, emoji |-> emoji,
         executeAt |-> now + delay])
  /\ queueCounter' = queueCounter + 1
  /\ requests' = requests + 1
  /\ UNCHANGED <<now, rateLimitWindow, sentCache, outboundMessageCache, processingQueue,
                 userInteractionCache, dedupe, surveyStateCache, surveyObj, jobs, jobObj, jobCounter, tasks, calls, accepted,
                 trail, scope>>

\* one tick of processMessageQueue (setInterval, 1 s)
ProcessMessageQueue(t) ==
  /\ Slot(t)
  /\ LET readyMessages == SelectSeq(messageQueue,
            LAMBDA m : m.executeAt <= now /\ m.id \notin processingQueue)
         r == PollerLoop(Store, [NewTask("queue", NoMsg, 0) EXCEPT !.rest = readyMessages])
     IN /\ readyMessages # <<>>
        /\ tasks' = [tasks EXCEPT ![t] = r.T]
        /\ Commit(r.S)
  /\ UNCHANGED <<now, queueCounter, requests, scope>>

\* sendGreetingAndPDF's pause between the greeting and the PDF is over
GapDone(t) ==
  /\ tasks[t].pc = "gap"
  /\ now >= tasks[t].wake
  /\ Settle(t, tasks[t], RobustRound(Store, tasks[t], tasks[t].msg, 0))
  /\ UNCHANGED <<now, queueCounter, requests, scope>>

\* queueMessage as the webhook calls it: the item gets the next id
queueMessage(S, id, phoneNumber, messageType, greeting, directPDF, emoji, delay) ==
  [S EXCEPT !.mq = Sorted(S.mq,
     [id |-> id, phoneNumber |-> phoneNumber, messageType |-> messageType,
      greeting |-> greeting, directPDF |-> directPDF, emoji |-> emoji,
      executeAt |-> now + delay])]

\* a dedupe cache that never finds a message id
dedupeGet_Never(S, messageId) == FALSE

\* dedupe.get(messageId)
dedupeGet(S, messageId) ==
  /\ messageId \in DOMAIN S.dedupe
  /\ now - S.dedupe[messageId] <= DEDUPE_TTL_MS

\* hasUserBeenContacted(phoneNumber)
hasUserBeenContacted(S, phoneNumber) == normalizePhone(phoneNumber) \in DOMAIN S.users

\* a phantom check that looks at texts only
PhantomDelivery_TextOnly(S, from, in) ==
  in.text # "" /\ outboundGet(S, <<"out", from, "text", in.text>>)

\* the webhook's phantom-delivery checks for the inbound message in from `from`
PhantomDelivery(S, from, in) ==
  \/ in.text # "" /\ outboundGet(S, <<"out", from, "text", in.text>>)
  \/ in.doc # "" /\ outboundGet(S, <<"out", from, "doc", in.doc>>)

\* the webhook handler for the inbound message in (VERIFY_TOKEN passed, kind
\* "message", SENDER_PHONE not configured): its reply and the store it leaves.
\* greeting, directPDF, emoji and delay are what the random helpers drew.
WebhookHandler(S, in, greeting, directPDF, emoji, delay) ==
  LET from == normalizePhone(in.from)
      S1 == [S EXCEPT !.dedupe = Put(S.dedupe, in.messageId, now)]
      userData == S.users[from]
  IN IF in.from_me THEN [reply |-> "ignored-from-me", S |-> S]
     ELSE IF from = "" THEN [reply |-> "missing-sender", S |-> S]
     ELSE IF PhantomDelivery(S, from, in) THEN [reply |-> "ignored-phantom-delivery", S |-> S]
     ELSE IF dedupeGet(S, in.messageId) THEN [reply |-> "ok", S |-> S]
     ELSE IF hasUserBeenContacted(S1, from)
          THEN IF userData.sentInitial /\ ~userData.sentFollowUp
               THEN [reply |-> "emoji-queued",
                     S |-> markUserContacted(
                             queueMessage(S1, queueCounter + 1, from, "emoji_response", "", FALSE,
                                          emoji, delay), from, "followup")]
               ELSE [reply |-> "already-contacted", S |-> S1]
     ELSE [reply |-> "contact-queued",
           S |-> queueMessage(S1, queueCounter + 1, from, "greeting_and_pdf", greeting,
                              directPDF, "", delay)]

\* history: the ledger holds an entry, younger than its ttl, for the sender and
\* the text or the document id of the inbound message in
LedgerHolds(S, in) ==
  \E key \in DOMAIN S.out :
     /\ key[2] = normalizePhone(in.from)
     /\ \/ key[3] = "text" /\ in.text # "" /\ key[4] = in.text
        \/ key[3] = "doc" /\ in.doc # "" /\ key[4] = in.doc
     /\ now < S.out[key].timestamp + PHANTOM_DELIVERY_WINDOW_MS

\* POST /webhook
Webhook(in, greeting, directPDF, emoji, delay) ==
  /\ CanRequest
  /\ LET r == WebhookHandler(Store, in, greeting, directPDF, emoji, delay)
     IN /\ Commit([r.S EXCEPT !.trail.hook =
                     [reply |-> r.reply,
                      echo |-> ~in.from_me /\ LedgerHolds(Store, in),
                      changed |-> r.S # Store]])
        /\ queueCounter' = Len(r.S.mq) - Len(messageQueue) + queueCounter
  /\ requests' = requests + 1
  /\ UNCHANGED <<now, tasks, scope>>

\* time passes
Advance ==
  /\ now < scope.steps * scope.step
  /\ now' = now + scope.step
  /\ UNCHANGED <<rateLimitWindow, sentCache, outboundMessageCache, messageQueue,
                 processingQueue, userInteractionCache, dedupe, surveyStateCache, surveyObj, jobs, jobObj, jobCounter,
                 queueCounter, tasks, calls, accepted, trail, requests, scope>>

Init ==
  /\ now = 0
  /\ requests = 0
  /\ rateLimitWindow = <<>>
  /\ sentCache = <<>>
  /\ outboundMessageCache = <<>>
  /\ messageQueue = <<>>
  /\ processingQueue = {}
  /\ userInteractionCache = <<>>
  /\ dedupe = <<>>
  /\ surveyStateCache = <<>>
  /\ surveyObj = <<>>
  /\ jobs = <<>>
  /\ jobObj = <<>>
  /\ jobCounter = 0
  /\ queueCounter = 0
  /\ tasks = [t \in TaskIds |-> FreeTask]
  /\ calls = <<>>
  /\ accepted = <<>>
  /\ trail = [origin |-> <<>>, starts |-> <<>>, fatal |-> {}, lost |-> {}, runs |-> <<>>, begun |-> <<>>,
              prints |-> {},
              hook |-> [reply |-> "", echo |-> FALSE, changed |-> FALSE],
              lastEnd |-> [job |-> 0, res |-> "", counted |-> FALSE, backedOff |-> FALSE,
                           removed |-> FALSE, delay |-> 0]]

(* ------------- the retry job queue and the paths that feed it ---------- *)
NextJobs ==
  \/ \E t \in TaskIds, m \in TextMsgs : SendTextRobustOrQueue(t, m)
  \/ \E t \in TaskIds, m \in DocMsgs : WebhookDoc(t, m)
  \/ \E t \in TaskIds : JobWorkerTick(t)
  \/ \E id \in 1..MaxJobs : AdminRetryJob(id)
  \/ \E t \in TaskIds, res \in HttpResults : HttpResponse(t, res)
  \/ \E t \in TaskIds : SleepDone(t)
  \/ Advance

InitJobs ==
  Init /\ scope = [tasks |-> JobsTasks, requests |-> JobsRequests, jobs |-> JobsJobs,
                   steps |-> JobsSteps, calls |-> FALSE,
                   maxRetries |-> JOB_MAX_RETRIES, step |-> ClockStepMs, times |-> FALSE,
                   normalized |-> NormalizedPhones]

SpecJobs == InitJobs /\ [][NextJobs]_vars

\* the executions of job id that are under way
Running(id) == {t \in TaskIds : tasks[t].path = "job" /\ tasks[t].job = id}

\* C5: mutual exclusion: at no time are two worker executions processing the
\* same retry job, also when the admin retry-job operation is invoked while
\* the job is in flight.
C5_MutualExclusion ==
  \A id \in DOMAIN jobObj : Cardinality(Running(id)) <= 1

\* C6: retry termination, its bound: no job is given more than maxAttempts
\* processing attempts, for any sequence of gateway failures, rate-limit
\* rejections and admin retry-job calls.
C6_AtMostMaxAttempts ==
  \A id \in DOMAIN trail.starts : trail.starts[id] <= jobObj[id].maxAttempts

\* C7: fatal short-circuit: once an attempt of a retry job has ended with HTTP
\* 401 or 403 the job is out of the queue, even if attempts < maxAttempts.
C7_FatalShortCircuit ==
  \A id \in trail.fatal : ~jobsHas(Store, id)

\* C8: a fatal (401/403) failure of a first attempt never causes a retry job
\* to be created for that message.
C8_NoJobAfterFatalFirstAttempt ==
  \A id \in DOMAIN trail.origin : ~IsFatal(trail.origin[id])

\* C9: a send rejected by the local rate limiter is not a delivery attempt: it
\* leaves the job's attempts counter unchanged, applies no backoff to
\* nextAttemptAt and never causes the job to be abandoned.
C9_RateLimitedIsNoAttempt ==
  trail.lastEnd.res = "ratelimited" =>
    /\ ~trail.lastEnd.counted
    /\ ~trail.lastEnd.backedOff
    /\ ~trail.lastEnd.removed

(* --------------------- the send functions, called directly ------------- *)
NextSend ==
  \/ \E t \in TaskIds : SendText(t, TextHello)
  \/ \E t \in TaskIds : AdminSendDoc(t, DocTv)
  \/ \E t \in TaskIds, res \in HttpResults : HttpResponse(t, res)
  \/ \E t \in TaskIds : SleepDone(t)
  \/ Advance

InitSend ==
  Init /\ scope = [tasks |-> SendTasks, requests |-> SendRequests, jobs |-> 0,
                   steps |-> SendSteps, calls |-> TRUE,
                   maxRetries |-> JOB_MAX_RETRIES, step |-> ClockStepMs, times |-> FALSE,
                   normalized |-> NormalizedPhones]

SpecSend == InitSend /\ [][NextSend]_vars

\* the tasks waiting for the gateway's answer to a call for msg
InFlight(msg) == {t \in TaskIds : tasks[t].pc \in {"text", "json", "multipart"} /\ tasks[t].msg = msg}

\* the calls made at a time in [from, from + BUCKET_MS)
CallsInWindow(from) == {i \in 1..Len(calls) : from <= calls[i].at /\ calls[i].at < from + BUCKET_MS}

\* C1: idempotency: once the gateway has accepted a send of (recipient,
\* content, kind), a further send request for the same tuple made within the
\* sent-cache TTL makes no gateway HTTP call, also across a minute-bucket
\* boundary of the fingerprint.
C1_Idempotency ==
  \A i \in 1..Len(calls) : ~calls[i].dup

\* C2: when the same send is requested again while the first gateway call for
\* it is still in flight, no second HTTP call is made: at most one call for a
\* message is ever in flight.
C2_OneCallInFlight ==
  \A t \in TaskIds : tasks[t].pc # "free" => Cardinality(InFlight(tasks[t].msg)) <= 1

\* C3: rate bound: in any window of the limiter's length, also one that
\* straddles two wall-clock buckets, at most RATE_LIMIT_PER_MINUTE gateway
\* HTTP calls are made by all send paths together.
C3_RateBound ==
  \A i \in 1..Len(calls) : Cardinality(CallsInWindow(calls[i].at)) <= RATE_LIMIT_PER_MINUTE

\* C4: every gateway HTTP call is preceded by a checkRateLimit that returned
\* true for that call; no call is made after the acquire for that attempt
\* returned false.
C4_EveryCallAcquired ==
  \A i \in 1..Len(calls) : calls[i].acquire = "granted"

(* ------------------ the same text in rapid succession ------------------ *)
NextRapid ==
  \/ \E t \in TaskIds : SendText(t, TextHello)
  \/ \E t \in TaskIds, res \in HttpResults : HttpResponse(t, res)
  \/ Advance

InitRapid ==
  Init /\ scope = [tasks |-> RapidTasks, requests |-> RapidRequests, jobs |-> 0,
                   steps |-> RapidSteps, calls |-> TRUE,
                   maxRetries |-> JOB_MAX_RETRIES, step |-> ClockStepMs, times |-> FALSE,
                   normalized |-> NormalizedPhones]

SpecRapid == InitRapid /\ [][NextRapid]_vars

(* ----------------------- the delayed message queue --------------------- *)
Greetings == {"", "Hi"}
\* what Math.floor(Math.random() * 10000) and Math.random() * 1000 (its whole
\* milliseconds) may give: the ends of their ranges
DelayFloors == {0, 9999}
DelayFractions == {0, 999}

\* a getRandomDelay without the Math.max
getRandomDelay_NoFloor(floor, fraction) == floor + fraction

\* getRandomDelay(), from the two numbers it draws
getRandomDelay(floor, fraction) ==
  IF 2000 >= floor + fraction THEN 2000 ELSE floor + fraction

Delays == {getRandomDelay(a, b) : a \in DelayFloors, b \in DelayFractions}

NextQueue ==
  \/ \E g \in Greetings, d \in BOOLEAN, delay \in Delays :
        QueueMessage(Phone, "greeting_and_pdf", g, d, "", delay)
  \/ \E delay \in Delays : QueueMessage(Phone, "emoji_response", "", FALSE, "emoji", delay)
  \/ \E t \in TaskIds : AdminSendDoc(t, CombinedDoc(Phone))
  \/ \E t \in TaskIds : ProcessMessageQueue(t)
  \/ \E t \in TaskIds, res \in HttpResults : HttpResponse(t, res)
  \/ \E t \in TaskIds : SleepDone(t)
  \/ \E t \in TaskIds : GapDone(t)
  \/ Advance

InitQueue ==
  Init /\ scope = [tasks |-> QueueTasks, requests |-> QueueRequests, jobs |-> 0,
                   steps |-> QueueSteps, calls |-> TRUE,
                   maxRetries |-> JOB_MAX_RETRIES, step |-> ClockStepMs, times |-> FALSE,
                   normalized |-> NormalizedPhones]

SpecQueue == InitQueue /\ [][NextQueue]_vars

\* C10: no message loss during rate limiting: whenever the rate budget turns
\* out to be exhausted while a ready message is dispatched, the message is
\* still in the queue afterwards; a message leaves the queue only when a
\* gateway call is made for it or it is skipped as a duplicate.
C10_NoLossWhenRateLimited ==
  trail.lost = {}

(* ------------------- the webhook and the delayed queue ------------------ *)
\* inbound messages: a user's text, the echo of a greeting, of an emoji reply
\* and of the combined PDF, and a from_me echo
Inbound(messageId, from, text, doc, from_me) ==
  [messageId |-> messageId, from |-> from, text |-> text, doc |-> doc, from_me |-> from_me]

Inbounds ==
  { Inbound("m1", "+91 12345-67890", "hello", "", FALSE),
    Inbound("m2", Phone, "Hi", "", FALSE),
    Inbound("m3", Phone, "", "combined", FALSE),
    Inbound("m4", Phone, "Hi", "", TRUE) }

NextHook ==
  \/ \E in \in Inbounds, d \in BOOLEAN : Webhook(in, "Hi", d, "emoji", 2000)
  \/ \E t \in TaskIds : ProcessMessageQueue(t)
  \/ \E t \in TaskIds, res \in HttpResults : HttpResponse(t, res)
  \/ \E t \in TaskIds : SleepDone(t)
  \/ \E t \in TaskIds : GapDone(t)
  \/ Advance

InitHook ==
  Init /\ scope = [tasks |-> HookTasks, requests |-> HookRequests, jobs |-> 0,
                   steps |-> HookSteps, calls |-> FALSE,
                   maxRetries |-> JOB_MAX_RETRIES, step |-> ClockStepMs, times |-> FALSE,
                   normalized |-> NormalizedPhones]

SpecHook == InitHook /\ [][NextHook]_vars

\* C11: phantom suppression: an inbound message from R whose text or document
\* id has an outbound-ledger entry for R younger than the ledger ttl is
\* answered ignored-phantom-delivery and changes no state.
C11_PhantomSuppression ==
  trail.hook.echo => trail.hook.reply = "ignored-phantom-delivery" /\ ~trail.hook.changed

C11_Witness ==
  /\ trail.hook.echo
  /\ trail.hook.reply = "ignored-phantom-delivery"
  /\ \E key \in DOMAIN outboundMessageCache : outboundMessageCache[key].failed

(* --------------- one retry job, followed through its attempts ---------- *)
NextBackoff ==
  \/ \E t \in TaskIds, m \in TextMsgs : SendTextRobustOrQueue(t, m)
  \/ \E t \in TaskIds, m \in DocMsgs : WebhookDoc(t, m)
  \/ \E t \in TaskIds : JobWorkerTick(t)
  \/ \E t \in TaskIds, res \in HttpResults : HttpResponse(t, res)
  \/ \E t \in TaskIds : SleepDone(t)
  \/ Advance

InitBackoff ==
  Init /\ scope = [tasks |-> BackoffTasks, requests |-> BackoffRequests, jobs |-> 1,
                   steps |-> BackoffSteps, calls |-> FALSE,
                   maxRetries |-> BackoffRetries, step |-> FineStepMs, times |-> TRUE,
                   normalized |-> NormalizedPhones]

SpecBackoff == InitBackoff /\ [][NextBackoff]_vars

\* the start times of the executions of job id, in order
Begun(id) == SelectSeq(trail.begun, LAMBDA b : b.job = id)

\* C12: a retry job whose attempts all fail is attempted exactly maxAttempts
\* times and then removed: it is never started more than maxAttempts times, it
\* stays queued (every failure counted) while fewer attempts have failed, and
\* it is abandoned only by the failure of attempt number maxAttempts.
C12_ExactlyMaxAttempts ==
  \A id \in DOMAIN jobObj :
    /\ id \in DOMAIN trail.starts => trail.starts[id] <= jobObj[id].maxAttempts
    /\ jobsHas(Store, id) /\ Running(id) = {} =>
         /\ jobObj[id].attempts < jobObj[id].maxAttempts
         /\ jobObj[id].attempts = IF id \in DOMAIN trail.starts THEN trail.starts[id] ELSE 0
    /\ trail.lastEnd.job = id /\ trail.lastEnd.removed /\ ~Returned(trail.lastEnd.res) =>
         trail.starts[id] = jobObj[id].maxAttempts

\* the worker's reschedule after a failure, seen as a step: the execution of
\* job id held by task t ends, the job stays queued with one more attempt
Rescheduled(t, id) ==
  /\ tasks[t].path = "job" /\ tasks[t].job = id
  /\ tasks'[t].pc = "free"
  /\ \E i \in 1..Len(jobs') : jobs'[i] = id
  /\ jobObj'[id].attempts = jobObj[id].attempts + 1

\* C13: exponential backoff: a failure that leaves attempts < maxAttempts sets
\* nextAttemptAt to the time of the failure + base * 2^(attempts - 1), attempts
\* being the incremented count, and unlocks the job; the delay is greater than
\* the one the job's previous failure got.
C13_ExponentialBackoff ==
  [][\A t \in TaskIds, id \in DOMAIN jobObj :
       Rescheduled(t, id) =>
         /\ jobObj'[id].attempts < jobObj'[id].maxAttempts
         /\ jobObj'[id].nextAttemptAt = now + JOB_RETRY_BASE_MS * 2 ^ (jobObj'[id].attempts - 1)
         /\ ~jobObj'[id].locked
         /\ trail.lastEnd.job = id /\ trail.lastEnd.delay > 0
              => trail'.lastEnd.delay > trail.lastEnd.delay]_vars

C13_Witness ==
  /\ trail.lastEnd.job = 1 /\ trail.lastEnd.delay = 2 * JOB_RETRY_BASE_MS
  /\ jobsHas(Store, 1) /\ jobObj[1].attempts = 2 /\ ~jobObj[1].locked

Awaiting(enc) == {t \in TaskIds : tasks[t].pc = enc /\ tasks[t].msg.type = "document"}

LedgerKey(msg) == IF msg.type = "text" THEN TextKey(msg) ELSE DocKey(msg)

\* C16: transport bookkeeping: whatever the kind and encoding, when a gateway
\* call succeeds the send function has written the idempotency mark and a
\* ledger entry (not failed) when it returns, and when the call fails it has
\* written a ledger entry marked failed and no idempotency mark.
C16_TransportBookkeeping ==
  \A t \in TaskIds : tasks[t].pc \in {"text", "json", "multipart"} =>
    \A res \in HttpResults :
      LET o == Resume(Store, tasks[t], res)
          key == LedgerKey(tasks[t].msg)
      IN /\ key \in DOMAIN o.S.out /\ o.S.out[key].timestamp = now
         /\ o.S.out[key].failed = (res # "ok")
         /\ IF res = "ok" THEN sentCacheGet(o.S, tasks[t].fp) ELSE o.S.sent = sentCache

\* C17: a ledger entry is never modified after its creation: whatever the
\* gateway answers to a pending call, the send function leaves every entry the
\* ledger already holds as it is (a later attempt gets an entry of its own).
C17_LedgerEntriesImmutable ==
  \A t \in TaskIds : tasks[t].pc \in {"text", "json"} =>
    \A res \in HttpResults, key \in DOMAIN outboundMessageCache :
      Resume(Store, tasks[t], res).S.out[key] = outboundMessageCache[key]

\* C18: every send path consults the idempotency cache before a gateway call:
\* no call is made for a message whose fingerprint the sent cache has marked,
\* on the delayed-queue paths (the direct PDF with caption included) as on
\* the others.
C18_NoCallWhenMarked ==
  \A i \in 1..Len(calls) : ~calls[i].marked

\* C19: every first attempt that fails with a retryable error puts a retry job
\* for its message in the job queue: when a send the poller runs for a queue
\* item gives up with a timeout, a network error or a 5xx, a job for the
\* item's recipient exists afterwards.
C19_RetryableFailureQueuesJob ==
  \A t \in TaskIds : tasks[t].path = "queue" /\ tasks[t].pc \in {"text", "json", "multipart", "direct"} =>
    \A res \in {"e500", "e0"} :
      LET o == Resume(Store, tasks[t], res)
          after == ItemStep(tasks[t], o).S
      IN o.k = "throw" =>
           \E id \in DOMAIN after.obj : after.obj[id].msg.to = tasks[t].item.phoneNumber

\* C20: delayed-queue at-most-once execution: no queue item is handed to the
\* send functions more than once, also when poller ticks overlap.
C20_ExecutedAtMostOnce ==
  \A id \in DOMAIN trail.runs : trail.runs[id] <= 1

(* ------------------------- the life of a retry job ---------------------- *)
\* the tasks whose gateway call, once answered, may end an execution of a job
JobCalls == {t \in TaskIds : tasks[t].path = "job" /\ tasks[t].pc \in {"text", "json", "multipart"}}

\* C21: job lifecycle: DONE and ABANDONED are absorbing: once a job has been
\* removed from the queue, whatever the gateway answers to a call still
\* pending for it, the job is not put back in the queue.
C21_RemovedIsAbsorbing ==
  \A t \in JobCalls : \A res \in HttpResults :
    LET o == Resume(Store, tasks[t], res)
        id == tasks[t].job
    IN o.k # "await" /\ ~jobsHas(Store, id) => ~jobsHas(PathFinish(tasks[t], o), id)

(* ------------- a retry job and another send of its message -------------- *)
RecheckTasks == 2
RecheckRequests == 2
RecheckSteps == 3

NextRecheck ==
  \/ \E t \in TaskIds : SendTextRobustOrQueue(t, TextHello)
  \/ \E t \in TaskIds : SendText(t, TextHello)
  \/ \E t \in TaskIds : JobWorkerTick(t)
  \/ \E t \in TaskIds, res \in HttpResults : HttpResponse(t, res)
  \/ Advance

InitRecheck ==
  Init /\ scope = [tasks |-> RecheckTasks, requests |-> RecheckRequests, jobs |-> 1,
                   steps |-> RecheckSteps, calls |-> TRUE,
                   maxRetries |-> JOB_MAX_RETRIES, step |-> ClockStepMs, times |-> FALSE,
                   normalized |-> NormalizedPhones]

SpecRecheck == InitRecheck /\ [][NextRecheck]_vars

\* the worker picks job id up in this step
PickedUp(id) ==
  /\ id \in DOMAIN trail'.starts
  /\ trail'.starts[id] = (IF id \in DOMAIN trail.starts THEN trail.starts[id] ELSE 0) + 1

\* C22: when a retry job is picked up and its fingerprint is marked in the
\* sent cache, the job is deleted in that step with no gateway call (no call
\* logged, no execution left waiting) and its attempts are not incremented.
C22_RecheckSkipsSentJob ==
  [][\A id \in DOMAIN jobObj :
       PickedUp(id) /\ sentCacheGet(Store, jobObj[id].fingerprint) =>
         /\ \A i \in 1..Len(jobs') : jobs'[i] # id
         /\ calls' = calls
         /\ tasks' = tasks
         /\ jobObj'[id].attempts = jobObj[id].attempts]_vars

\* a job picked up once and gone with no execution of it ever run or ended,
\* its fingerprint marked by the other send in an earlier minute
C22_Witness ==
  /\ 1 \in DOMAIN trail.starts /\ trail.starts[1] = 1
  /\ ~jobsHas(Store, 1) /\ jobObj[1].attempts = 0
  /\ Running(1) = {} /\ trail.lastEnd.job = 0
  /\ sentCacheGet(Store, jobObj[1].fingerprint)
  /\ now \div BUCKET_MS > jobObj[1].fingerprint.timestamp

(* ------------------------ two retry jobs, both due ---------------------- *)
BatchTasks == 2
BatchRequests == 2
BatchJobs == 2
BatchSteps == 2

NextBatch ==
  \/ \E t \in TaskIds, m \in TextMsgs : SendTextRobustOrQueue(t, m)
  \/ \E t \in TaskIds : JobWorkerTick(t)
  \/ \E id \in 1..MaxJobs : AdminRetryJob(id)
  \/ \E t \in TaskIds, res \in HttpResults : HttpResponse(t, res)
  \/ Advance

InitBatch ==
  Init /\ scope = [tasks |-> BatchTasks, requests |-> BatchRequests, jobs |-> BatchJobs,
                   steps |-> BatchSteps, calls |-> FALSE,
                   maxRetries |-> JOB_MAX_RETRIES, step |-> ClockStepMs, times |-> FALSE,
                   normalized |-> NormalizedPhones]

SpecBatch == InitBatch /\ [][NextBatch]_vars

\* C23: a worker tick starts a job only if the job's nextAttemptAt is not
\* later than now and the job is unlocked when the tick selects it, and one
\* tick starts at most JOB_WORKER_BATCH jobs: no job is attempted before its
\* nextAttemptAt.
C23_StartedOnlyWhenDue ==
  [][/\ \A id \in DOMAIN jobObj :
          PickedUp(id) => /\ jobObj[id].nextAttemptAt <= now
                          /\ ~jobObj[id].locked
     /\ Cardinality({id \in DOMAIN jobObj : PickedUp(id)}) <= JOB_WORKER_BATCH]_vars

\* one of two due and unlocked jobs has been started, the other waits for a
\* later tick
C23_Witness ==
  /\ jobsHas(Store, 1) /\ jobsHas(Store, 2)
  /\ Running(1) # {} /\ jobObj[1].locked
  /\ 2 \notin DOMAIN trail.starts
  /\ jobObj[2].nextAttemptAt <= now /\ ~jobObj[2].locked

(* --------------- the two background workers, side by side --------------- *)
WorkersTasks == 2
WorkersRequests == 3
WorkersJobs == 2
WorkersSteps == 2

NextWorkers ==
  \/ \E g \in Greetings, d \in BOOLEAN : QueueMessage(Phone, "greeting_and_pdf", g, d, "", 2000)
  \/ QueueMessage(Phone, "emoji_response", "", FALSE, "emoji", 2000)
  \/ \E t \in TaskIds, m \in TextMsgs : SendTextRobustOrQueue(t, m)
  \/ \E t \in TaskIds : ProcessMessageQueue(t)
  \/ \E t \in TaskIds : JobWorkerTick(t)
  \/ \E t \in TaskIds, res \in HttpResults : HttpResponse(t, res)
  \/ \E t \in TaskIds : SleepDone(t)
  \/ \E t \in TaskIds : GapDone(t)
  \/ Advance

InitWorkers ==
  Init /\ scope = [tasks |-> WorkersTasks, requests |-> WorkersRequests, jobs |-> WorkersJobs,
                   steps |-> WorkersSteps, calls |-> TRUE,
                   maxRetries |-> JOB_MAX_RETRIES, step |-> ClockStepMs, times |-> FALSE,
                   normalized |-> NormalizedPhones]

SpecWorkers == InitWorkers /\ [][NextWorkers]_vars

\* the ids of the queue items in q
Ids(q) == {q[i].id : i \in 1..Len(q)}

\* C24: worker error isolation: whatever failure the gateway answers to a
\* call a background worker waits on, the worker catches it: the poller
\* releases the failed item and every other queued or selected message is
\* afterwards still queued (and not held) or has been handed to
\* executeQueuedMessage in this tick; the job worker unlocks or removes the
\* failed job and leaves every other job as it was.
C24_WorkerErrorIsolation ==
  /\ \A t \in TaskIds :
       tasks[t].path = "queue" /\ tasks[t].pc \in {"text", "json", "multipart", "direct"} =>
         \A res \in HttpResults \ {"ok"} :
           LET o == Resume(Store, tasks[t], res)
               r == ItemStep(tasks[t], o)
           IN o.k = "throw" =>
                /\ tasks[t].item.id \notin r.S.pq
                /\ \A id \in Ids(messageQueue) \cup Ids(tasks[t].rest) :
                     \/ id \in Ids(r.S.mq) /\ id \notin r.S.pq
                     \/ id \in DOMAIN r.S.trail.runs
                /\ r.S.jobs = jobs
  /\ \A t \in JobCalls : \A res \in HttpResults \ {"ok"} :
       LET o == Resume(Store, tasks[t], res)
           id == tasks[t].job
           S2 == PathFinish(tasks[t], o)
       IN o.k = "throw" =>
            /\ ~jobsHas(S2, id) \/ ~S2.obj[id].locked
            /\ \A j \in DOMAIN jobObj \ {id} :
                 S2.obj[j] = jobObj[j] /\ (jobsHas(S2, j) <=> jobsHas(Store, j))
            /\ S2.mq = messageQueue /\ S2.pq = processingQueue

\* one poller tick went on to its second ready message after the call for its
\* first one failed, while a retry job waits in the job queue
C24_Witness ==
  /\ \E t \in TaskIds :
       /\ tasks[t].path = "queue" /\ tasks[t].pc \in {"text", "json", "direct"}
       /\ tasks[t].item.id = 2
       /\ \A u \in TaskIds \ {t} : IsFree(u)
  /\ 1 \in DOMAIN trail.runs /\ trail.runs[1] = 1
  /\ \E i \in 1..Len(calls) : calls[i].path = "queue" /\ calls[i].msg \notin DOMAIN accepted
                              /\ calls[i].msg # tasks[CHOOSE t \in TaskIds : ~IsFree(t)].msg
  /\ jobs # <<>>

(* ---------------------------- the rate counter -------------------------- *)
\* rateLimitWindow.get(minute) || 0
RateCount(S, minute) == IF minute \in DOMAIN S.rate THEN S.rate[minute] ELSE 0

\* C25: rate counter invariant: the counter of every bucket is between 0 and
\* RATE_LIMIT_PER_MINUTE; checkRateLimit returns true exactly when the current
\* bucket's counter is below the budget and then adds one to that counter and
\* changes nothing else; when it returns false it changes no state.
C25_RateCounter ==
  LET currentMinute == now \div BUCKET_MS
      r == checkRateLimit(Store)
  IN /\ \A m \in DOMAIN rateLimitWindow :
          0 <= rateLimitWindow[m] /\ rateLimitWindow[m] <= RATE_LIMIT_PER_MINUTE
     /\ r.ok <=> RateCount(Store, currentMinute) < RATE_LIMIT_PER_MINUTE
     /\ r.ok => /\ RateCount(r.S, currentMinute) = RateCount(Store, currentMinute) + 1
                /\ \A m \in DOMAIN rateLimitWindow \ {currentMinute} :
                     RateCount(r.S, m) = rateLimitWindow[m]
                /\ [r.S EXCEPT !.rate = rateLimitWindow] = Store
     /\ ~r.ok => r.S = Store

\* the first minute's budget was used up and a send refused, and the next
\* minute's bucket has begun to count
C25_Witness ==
  /\ RateCount(Store, 0) = RATE_LIMIT_PER_MINUTE
  /\ RateCount(Store, 1) >= 1
  /\ trail.lastEnd.res = "ratelimited"

(* ----------------------- order of the delayed queue --------------------- *)
\* the queue items a poller may take in a step: those queued and those in the
\* readyMessages a running tick still has to go through
Selectable ==
  {messageQueue[i] : i \in 1..Len(messageQueue)}
    \cup UNION {{tasks[t].rest[i] : i \in 1..Len(tasks[t].rest)} : t \in TaskIds}

\* the poller takes the item id out of the queue and executes it in this step
Dispatched(id) ==
  /\ id \in DOMAIN trail'.runs
  /\ trail'.runs[id] > (IF id \in DOMAIN trail.runs THEN trail.runs[id] ELSE 0)

\* C26: delayed-queue ordering: the queue is kept in non-decreasing order of
\* executeAt, and whenever a step dispatches a message every message still
\* queued after the step is scheduled no earlier than it: the poller never
\* skips ahead, also when the rate budget stops it.
C26_QueueOrder ==
  [][/\ \A i, j \in 1..Len(messageQueue) :
          i < j => messageQueue[i].executeAt <= messageQueue[j].executeAt
     /\ \A x \in Selectable :
          Dispatched(x.id) =>
            \A i \in 1..Len(messageQueue') : messageQueue'[i].executeAt >= x.executeAt]_vars

\* the message queued second but scheduled earlier is being sent while the one
\* queued first still waits in the queue
C26_Witness ==
  \E t \in TaskIds :
    /\ tasks[t].path = "queue" /\ ~IsFree(t) /\ tasks[t].item.id = 2
    /\ \E i \in 1..Len(messageQueue) :
         /\ messageQueue[i].id = 1
         /\ messageQueue[i].executeAt > tasks[t].item.executeAt

(* ------------------- a new user's messages and the contact -------------- *)
ContactTasks == 1
ContactRequests == 3
ContactSteps == 3

InitContact ==
  Init /\ scope = [tasks |-> ContactTasks, requests |-> ContactRequests, jobs |-> 0,
                   steps |-> ContactSteps, calls |-> TRUE,
                   maxRetries |-> JOB_MAX_RETRIES, step |-> ClockStepMs, times |-> FALSE,
                   normalized |-> NormalizedPhones]

SpecContact == InitContact /\ [][NextHook]_vars

\* the gateway calls that open an initial contact with phone: the greeting
\* text, or the PDF with the greeting as its caption
ContactOpenings(phone) ==
  {i \in 1..Len(calls) :
     /\ calls[i].path = "queue"
     /\ calls[i].msg \in {GreetingText(phone, "Hi"), DirectPdf(phone, "Hi")}}

\* C27: one-contact policy: a user is sent the initial greeting/PDF contact at
\* most once, whatever inbound messages the user sends and whenever they
\* arrive, also before the first queued contact has been sent and also when
\* the first contact fails.
C27_OneContact ==
  Cardinality(ContactOpenings(Phone)) <= 1

(* ------------------------- the reply to a reply ------------------------- *)
\* the ids of the emoji responses for phone that are queued or being sent
EmojiItems(phone) ==
  {it.id : it \in {x \in Selectable \cup {tasks[t].item : t \in TaskIds} :
                     x.messageType = "emoji_response" /\ x.phoneNumber = phone}}

\* C28: a user who replies after the initial contact gets one emoji response
\* queued and is marked; once it has been queued every later inbound message
\* of that user leaves the queue and the user's record as they are, so there
\* is never more than one emoji response for a user.
C28_OneEmojiResponse ==
  /\ Cardinality(EmojiItems(Phone)) <= 1
  /\ EmojiItems(Phone) # {} => Phone \in DOMAIN userInteractionCache
                               /\ userInteractionCache[Phone].sentFollowUp
  /\ \A in \in Inbounds, d \in BOOLEAN :
       LET from == normalizePhone(in.from)
           r == WebhookHandler(Store, in, "Hi", d, "emoji", 2000)
       IN from \in DOMAIN userInteractionCache =>
            /\ userInteractionCache[from].sentFollowUp =>
                 /\ r.S.mq = messageQueue
                 /\ r.S.users = userInteractionCache
                 /\ r.reply # "emoji-queued" /\ r.reply # "contact-queued"
            /\ userInteractionCache[from].sentInitial /\ ~userInteractionCache[from].sentFollowUp
                 /\ r.reply \notin {"ignored-from-me", "ignored-phantom-delivery", "ok"} =>
                 /\ r.reply = "emoji-queued"
                 /\ Len(r.S.mq) = Len(messageQueue) + 1
                 /\ \E i \in 1..Len(r.S.mq) :
                      /\ r.S.mq[i].messageType = "emoji_response"
                      /\ r.S.mq[i].phoneNumber = from
                      /\ r.S.mq[i].id \notin Ids(messageQueue)
                 /\ r.S.users[from].sentFollowUp

\* after the contact and the emoji response to the user's reply, a further
\* message of the user was answered already-contacted
C28_Witness ==
  /\ Phone \in DOMAIN userInteractionCache
  /\ userInteractionCache[Phone].sentInitial /\ userInteractionCache[Phone].sentFollowUp
  /\ trail.hook.reply = "already-contacted"
  /\ queueCounter = 2

PrintRequests == 2
PrintSteps == 3

\* a message as the callers of the send functions have it
Message(to, kind, body, media, filename, buttons) ==
  [to |-> to, kind |-> kind, body |-> body, media |-> media, filename |-> filename,
   buttons |-> buttons]

Messages ==
  { Message("911234567890", "text", "Hello", "", "", ""),
    Message("+91 12345-67890", "text", "Hello", "", "", ""),
    Message(" 911234567890 ", "text", "Hello", "", "", ""),
    Message("911234567891", "text", "Hello", "", "", ""),
    Message("911234567890@c.us", "text", "Hello", "", "", ""),
    Message("911234567890", "text", "tv", "", "", ""),
    Message("911234567890", "document", "", "tv", "tv.pdf", ""),
    Message("911234567890", "document", "", "tv", "guide.pdf", ""),
    Message("911234567890", "document", "", "combined", "tv.pdf", ""),
    Message("911234567890", "interactive", "Pick", "", "", "yes-no"),
    Message("911234567890", "interactive", "Pick", "", "", "one-two") }

\* the fingerprint the send function for m's kind computes: sendTextOnce
\* passes the body, the document senders { media: mediaId }, the interactive
\* sender { body: bodyText, buttons }
FingerprintOf(m) ==
  CASE m.kind = "text" -> createMessageFingerprint(m.to, [body |-> m.body], "text")
    [] m.kind = "document" ->
         createMessageFingerprint(m.to, [media |-> m.media, body |-> ""], "document")
    [] m.kind = "interactive" ->
         createMessageFingerprint(m.to, [media |-> "", body |-> m.body, buttons |-> m.buttons],
                                  "interactive")

\* a send function computes the fingerprint of m
Fingerprint(m) ==
  /\ CanRequest
  /\ trail' = [trail EXCEPT !.prints = @ \cup {[m |-> m, at |-> now, fp |-> FingerprintOf(m)]}]
  /\ requests' = requests + 1
  /\ UNCHANGED <<now, rateLimitWindow, sentCache, outboundMessageCache, messageQueue,
                 processingQueue, userInteractionCache, dedupe, surveyStateCache, surveyObj, jobs, jobObj, jobCounter,
                 queueCounter, tasks, calls, accepted, scope>>

NextPrint ==
  \/ \E m \in Messages : Fingerprint(m)
  \/ Advance

InitPrint ==
  Init /\ scope = [tasks |-> 0, requests |-> PrintRequests, jobs |-> 0,
                   steps |-> PrintSteps, calls |-> FALSE,
                   maxRetries |-> JOB_MAX_RETRIES, step |-> ClockStepMs, times |-> FALSE,
                   normalized |-> NormalizedPhones]

SpecPrint == InitPrint /\ [][NextPrint]_vars

\* the same recipient (after normalization), kind and content
SameMessage(a, b) ==
  /\ normalizePhone(a.to) = normalizePhone(b.to)
  /\ a.kind = b.kind
  /\ a.body = b.body /\ a.media = b.media /\ a.filename = b.filename /\ a.buttons = b.buttons

\* C30: the fingerprint is a function of (normalized recipient, kind, content,
\* minute bucket): two messages with the same recipient, kind and content
\* fingerprinted in the same minute get the same fingerprint, and two that
\* differ in recipient, kind or content (body; media and file name; body and
\* buttons) get different ones.
C30_Fingerprint ==
  \A p, q \in trail.prints :
    (SameMessage(p.m, q.m) /\ p.at \div BUCKET_MS = q.at \div BUCKET_MS) <=> p.fp = q.fp

(* ------------------- webhook deliveries with a seen id ------------------ *)
\* history-free observer: the message id of in was marked by an earlier
\* delivery and the mark is younger than the dedupe ttl
Redelivered(in) ==
  /\ in.messageId \in DOMAIN dedupe
  /\ now - dedupe[in.messageId] <= DEDUPE_TTL_MS

\* the replies a redelivered message gets from the handler, whatever the
\* random helpers draw
RedeliveryOutcomes(in) ==
  { WebhookHandler(Store, in, "Hi", d, "emoji", 2000) : d \in BOOLEAN }

Opt(id, points) == [id |-> <<id>>, points |-> points]

Question(id, options, openText, multiSelect, maxPoints) ==
  [id |-> id, options |-> options, openText |-> openText, multiSelect |-> multiSelect,
   maxPoints |-> maxPoints]

SURVEY_QUESTIONS ==
  << Question(<<"q", "1">>,
        <<Opt("a", 0), Opt("b", 1), Opt("c", 2), Opt("d", 3)>>, FALSE, FALSE, 0),
     Question(<<"q", "2">>,
        <<Opt("a", 1), Opt("b", 1), Opt("c", 1), Opt("d", 1), Opt("e", 0)>>, FALSE, TRUE, 4),
     Question(<<"q", "3">>,
        <<Opt("a", 0), Opt("b", 1), Opt("c", 2), Opt("d", 3)>>, FALSE, FALSE, 0),
     Question(<<"q", "4">>,
        <<Opt("a", 2), Opt("b", 2), Opt("c", 2), Opt("d", 2), Opt("e", 2), Opt("f", 2),
          Opt("g", 0)>>, FALSE, FALSE, 0),
     Question(<<"q", "5">>,
        <<Opt("a", 0), Opt("b", 1), Opt("c", 2), Opt("d", 3)>>, FALSE, FALSE, 0),
     Question(<<"q", "6">>,
        <<Opt("a", 1), Opt("b", 1), Opt("c", 1), Opt("d", 1), Opt("e", 2), Opt("f", 3)>>,
        FALSE, FALSE, 0),
     Question(<<"q", "7">>,
        <<[id |-> <<"o", "p", "e", "n">>, points |-> 0]>>, TRUE, FALSE, 0),
     Question(<<"q", "8">>,
        <<Opt("a", 0), Opt("b", 1), Opt("c", 2), Opt("d", 3)>>, FALSE, FALSE, 0),
     Question(<<"q", "9">>,
        <<Opt("a", 1), Opt("b", 1), Opt("c", 2), Opt("d", 3)>>, FALSE, FALSE, 0),
     Question(<<"q", "1", "0">>,
        <<Opt("a", 0), Opt("b", 1), Opt("c", 2), Opt("d", 3)>>, FALSE, FALSE, 0),
     Question(<<"q", "1", "1">>,
        <<Opt("a", 2), Opt("b", 2), Opt("c", 1), Opt("d", 0)>>, FALSE, FALSE, 0),
     Question(<<"q", "1", "2">>,
        <<Opt("a", 2), Opt("b", 1), Opt("c", 0)>>, FALSE, FALSE, 0) >>

\* ACTION_PLANS: the number of messages of each tier's plan
ACTION_PLANS == [tier1 |-> 5, tier2 |-> 6, tier3 |-> 6]

\* String.prototype.startsWith
startsWith(s, prefix) == Len(prefix) <= Len(s) /\ SubSeq(s, 1, Len(prefix)) = prefix

\* the part of s before its first "_"
RECURSIVE upToSep(_)
upToSep(s) ==
  IF s = <<>> \/ Head(s) = "_" THEN <<>> ELSE <<Head(s)>> \o upToSep(Tail(s))

\* s.split('_')[1]: what lies between the first and the second "_"; undefined
\* (written <<"?">>) when s has no "_"
splitSecond(s) ==
  LET first == upToSep(s)
  IN IF Len(first) = Len(s) THEN <<"?">>
     ELSE upToSep(SubSeq(s, Len(first) + 2, Len(s)))

\* String.prototype.toLowerCase on the letters the inbound texts use
toLowerCase(s) == [i \in 1..Len(s) |-> IF s[i] = "M" THEN "m" ELSE s[i]]

\* question.options.find(o => o.id === optId)?.points || 0
pointsOf(question, optId) ==
  LET hits == SelectSeq(question.options, LAMBDA o : o.id = optId)
  IN IF hits = <<>> THEN 0 ELSE Head(hits).points

RECURSIVE sumPoints(_, _)
sumPoints(question, selectedOptions) ==
  IF selectedOptions = <<>> THEN 0
  ELSE pointsOf(question, Head(selectedOptions)) + sumPoints(question, Tail(selectedOptions))

\* calculateScore(questionId, selectedOptions)
calculateScore(questionId, selectedOptions) ==
  LET found == SelectSeq(SURVEY_QUESTIONS, LAMBDA q : q.id = questionId)
      question == Head(found)
      points == sumPoints(question, selectedOptions)
      cap == IF question.maxPoints # 0 THEN question.maxPoints ELSE points
  IN IF found = <<>> THEN 0
     ELSE IF question.openText THEN 0
     ELSE IF question.multiSelect THEN (IF points <= cap THEN points ELSE cap)
     ELSE pointsOf(question, Head(selectedOptions))

\* a tier mapping whose first threshold is exclusive
getTierFromScore_Exclusive(score) ==
  IF score > 25 THEN "tier1" ELSE IF score >= 15 THEN "tier2" ELSE "tier3"

\* getTierFromScore(score)
getTierFromScore(score) ==
  IF score >= 25 THEN "tier1" ELSE IF score >= 15 THEN "tier2" ELSE "tier3"

\* getSurveyState(phoneNumber): the index of the state object, 0 for undefined
getSurveyState(S, phoneNumber) ==
  LET userKey == normalizePhone(phoneNumber)
  IN IF userKey \in DOMAIN S.survey THEN S.survey[userKey] ELSE 0

\* initializeSurvey(phoneNumber): a new state object (its timestamp left out)
initializeSurvey(S, phoneNumber) ==
  [S EXCEPT !.sobj = Append(S.sobj, [active |-> TRUE, currentQuestion |-> 0,
                                      answers |-> <<>>, totalScore |-> 0]),
            !.survey = Put(S.survey, normalizePhone(phoneNumber), Len(S.sobj) + 1)]

\* markUserContacted(phoneNumber, interactionType) of the survey server
markSurveyUser(S, phoneNumber, interactionType) ==
  LET userKey == normalizePhone(phoneNumber)
      interactions == IF userKey \in DOMAIN S.users THEN S.users[userKey].interactions
                      ELSE <<>>
  IN [S EXCEPT !.users = Put(S.users, userKey,
                             [interactions |-> Append(interactions, interactionType)])]

\* queueMessage(phoneNumber, messageType, data) of the survey server: data is
\* a text or a question index; the item gets the next id
queueSurveyMessage(S, phoneNumber, messageType, data, delay) ==
  [S EXCEPT !.mq = Sorted(S.mq,
     [id |-> queueCounter + Len(S.mq) - Len(messageQueue) + 1,
      phoneNumber |-> phoneNumber, messageType |-> messageType, data |-> data,
      executeAt |-> now + delay])]

\* handleSurveyResponse(phoneNumber, buttonId, messageText) up to its first
\* sleep or its end.  The state object is changed in place; buttonId and
\* messageText are <<>> when the message has none.
handleSurveyResponse(S, phoneNumber, buttonId, messageText, delay) ==
  LET i == getSurveyState(S, phoneNumber)
      state == S.sobj[i]
      currentQuestion == SURVEY_QUESTIONS[state.currentQuestion + 1]
      optionId == splitSecond(buttonId)
      points == calculateScore(currentQuestion.id, <<optionId>>)
      answered ==
        IF currentQuestion.openText
        THEN [state EXCEPT !.answers = Append(@, [questionId |-> currentQuestion.id,
                                                  answer |-> messageText, points |-> 0])]
        ELSE [state EXCEPT !.answers = Append(@, [questionId |-> currentQuestion.id,
                                                  selectedOptions |-> <<optionId>>,
                                                  points |-> points]),
                           !.totalScore = @ + points]
      moved == [answered EXCEPT !.currentQuestion = @ + 1]
  IN IF i = 0 THEN [handled |-> FALSE, completed |-> FALSE, S |-> S]
     ELSE IF ~state.active THEN [handled |-> FALSE, completed |-> FALSE, S |-> S]
     ELSE IF ~currentQuestion.openText
             /\ (buttonId = <<>> \/ ~startsWith(buttonId, currentQuestion.id))
          THEN [handled |-> FALSE, completed |-> FALSE, S |-> S]
     ELSE IF moved.currentQuestion < Len(SURVEY_QUESTIONS)
          THEN [handled |-> TRUE, completed |-> FALSE,
                S |-> queueSurveyMessage([S EXCEPT !.sobj[i] = moved], phoneNumber,
                                         "survey_question", moved.currentQuestion, delay)]
     ELSE [handled |-> TRUE, completed |-> TRUE,
           S |-> queueSurveyMessage([S EXCEPT !.sobj[i] = [moved EXCEPT !.active = FALSE]],
                                    phoneNumber, "text_message", <<"thanks">>, delay)]

\* a survey execution suspended in a sleep: after the welcome text ("welcome"),
\* after the thank-you text ("thanks", holding the state object), or in
\* sendActionPlan before plan message i ("plan")
SurveyTask(pc, phoneNumber, state, tier, i, wake) ==
  [path |-> "survey", pc |-> pc, phoneNumber |-> phoneNumber, state |-> state,
   tier |-> tier, i |-> i, wake |-> wake]

Mining == <<"m", "i", "n", "i", "n", "g">>

\* the webhook's survey flow for the inbound message in (its checks up to
\* the dedupe mark passed), up to its first sleep or its end
SurveyFlow(S, in, delay) ==
  LET from == normalizePhone(in.from)
      i == getSurveyState(S, from)
      r == handleSurveyResponse(S, from, in.buttonResponse, in.text, delay)
  IN IF i # 0 /\ S.sobj[i].active /\ r.handled
     THEN [reply |-> "survey-response-handled", S |-> r.S,
           T |-> IF r.completed
                 THEN SurveyTask("thanks", from, i, "", 0, now + 1000) ELSE FreeTask]
     ELSE IF in.text # <<>> /\ trim(toLowerCase(in.text)) = Mining
     THEN [reply |-> "survey-started",
           S |-> queueSurveyMessage(
                   markSurveyUser(initializeSurvey(S, from), from, "survey_started"),
                   from, "text_message", <<"welcome">>, delay),
           T |-> SurveyTask("welcome", from, 0, "", 0, now + 500)]
     ELSE IF ~hasUserBeenContacted(S, from)
     THEN [reply |-> "instructions-sent",
           S |-> queueSurveyMessage(markSurveyUser(S, from, "instructed"), from,
                                    "text_message", <<"instructions">>, delay),
           T |-> FreeTask]
     ELSE [reply |-> "ignored-not-survey", S |-> S, T |-> FreeTask]

\* POST /webhook of the survey server, for a message with a new id
SurveyWebhook(t, in) ==
  /\ Slot(t) /\ CanRequest
  /\ LET id == <<"in", requests + 1>>
         S1 == [Store EXCEPT !.dedupe = Put(Store.dedupe, id, now)]
         r == SurveyFlow(S1, in, 2000)
     IN /\ Commit([r.S EXCEPT !.trail.hook = [reply |-> r.reply, echo |-> FALSE,
                                              changed |-> r.S.sobj # Store.sobj]])
        /\ queueCounter' = Len(r.S.mq) - Len(messageQueue) + queueCounter
        /\ tasks' = [tasks EXCEPT ![t] = r.T]
  /\ requests' = requests + 1
  /\ UNCHANGED <<now, scope>>

\* a sleep of a survey execution is over: the webhook queues question 0, or
\* handleSurveyResponse calls sendActionPlan with the state's total, or
\* sendActionPlan queues its next message
SurveySleepDone(t) ==
  /\ tasks[t].path = "survey"
  /\ now >= tasks[t].wake
  /\ LET T == tasks[t]
         tier == getTierFromScore(surveyObj[T.state].totalScore)
         S1 == CASE T.pc = "welcome" ->
                      queueSurveyMessage(Store, T.phoneNumber, "survey_question", 0, 2000)
                 [] T.pc = "thanks" ->
                      queueSurveyMessage(Store, T.phoneNumber, "text_message",
                         <<"plan", tier, "title", surveyObj[T.state].totalScore>>, 2000)
                 [] T.pc = "plan" ->
                      queueSurveyMessage(Store, T.phoneNumber, "text_message",
                         <<"plan", T.tier, T.i>>, 2000)
         T1 == CASE T.pc = "welcome" -> FreeTask
                 [] T.pc = "thanks" ->
                      SurveyTask("plan", T.phoneNumber, T.state, tier, 0, now + 500)
                 [] T.pc = "plan" ->
                      IF T.i + 1 < ACTION_PLANS[T.tier]
                      THEN SurveyTask("plan", T.phoneNumber, T.state, T.tier, T.i + 1, now + 500)
                      ELSE FreeTask
     IN /\ Commit(S1)
        /\ queueCounter' = queueCounter + 1
        /\ tasks' = [tasks EXCEPT ![t] = T1]
  /\ UNCHANGED <<now, requests, scope>>

\* time passes until the next sleep of a survey execution is over
TimerDue ==
  LET wakes == {tasks[t].wake : t \in {u \in TaskIds : tasks[u].path = "survey"}}
  IN /\ wakes # {}
     /\ \A w \in wakes : now < w
     /\ now' = CHOOSE w \in wakes : \A v \in wakes : w <= v
     /\ UNCHANGED <<rateLimitWindow, sentCache, outboundMessageCache, messageQueue,
                    processingQueue, userInteractionCache, dedupe, surveyStateCache, surveyObj,
                    jobs, jobObj, jobCounter, queueCounter, tasks, calls, accepted, trail,
                    requests, scope>>

SurveyTasks == 2
SurveyRequests == 14
MaxSurveys == 2

\* the options the user picks from, for each question: its first and its
\* highest-scoring option where that makes the tiers differ, else the highest
Picks ==
  << {"a", "d"}, {"a"}, {"a", "d"}, {"a"}, {"a", "d"}, {"f"}, {}, {"a", "d"}, {"d"},
     {"a", "d"}, {"a"}, {"a"} >>

SurveyInbound(text, buttonResponse) ==
  [from |-> Phone, text |-> text, buttonResponse |-> buttonResponse]

\* question number q has been put to the user (the delayed queue is not
\* drained here, so its item is still there)
Asked(q) ==
  \E k \in 1..Len(messageQueue) :
     messageQueue[k].messageType = "survey_question" /\ messageQueue[k].data = q - 1

\* what the user sends while the survey is at question number q (0 when no
\* survey is active): once the question was put, a tap on one of its picked
\* options; at the open question, before the survey and at its first question
\* a typed text; before and after a survey the keyword (for MaxSurveys surveys
\* in all); at the first two questions a tap on a button of question 10 or
\* question 1
SurveyInbounds(q) ==
  (IF q \in {0, 1, 7} THEN {SurveyInbound(<<"o", "k">>, <<>>)} ELSE {})
  \cup (IF q = 0 /\ Len(surveyObj) < MaxSurveys
        THEN {SurveyInbound(<<" ", "M", "i", "n", "i", "n", "g">>, <<>>)}
        ELSE {})
  \cup (IF q = 0 \/ ~Asked(q) THEN {}
        ELSE {SurveyInbound(<<>>, SURVEY_QUESTIONS[q].id \o <<"_", o>>) : o \in Picks[q]})
  \cup (IF q \in {1, 2} /\ Asked(q)
        THEN {SurveyInbound(<<>>, <<"q", "1", "0", "_", "d">>),
              SurveyInbound(<<>>, <<"q", "1", "_", "a">>)}
        ELSE {})

\* the question the user's survey is at, 0 when none is active
AtQuestion ==
  LET i == getSurveyState(Store, Phone)
  IN IF i = 0 THEN 0 ELSE IF surveyObj[i].active THEN surveyObj[i].currentQuestion + 1 ELSE 0

NextSurvey ==
  \/ \E t \in TaskIds, in \in SurveyInbounds(AtQuestion) : SurveyWebhook(t, in)
  \/ \E t \in TaskIds : SurveySleepDone(t)
  \/ TimerDue

InitSurvey ==
  Init /\ scope = [tasks |-> SurveyTasks, requests |-> SurveyRequests, jobs |-> 0,
                   steps |-> 0, calls |-> FALSE,
                   maxRetries |-> JOB_MAX_RETRIES, step |-> FineStepMs, times |-> FALSE,
                   normalized |-> NormalizedPhones]

SpecSurvey == InitSurvey /\ [][NextSurvey]_vars

\* the points of the recorded answers, added up
RECURSIVE AnswerPoints(_)
AnswerPoints(answers) ==
  IF answers = <<>> THEN 0 ELSE Head(answers).points + AnswerPoints(Tail(answers))

\* the action-plan items in the delayed queue: titles and plan messages
PlanItems ==
  { messageQueue[k].data : k \in {j \in 1..Len(messageQueue) :
       /\ messageQueue[j].messageType = "text_message"
       /\ Head(messageQueue[j].data) = "plan"} }

\* the survey state objects that are complete
Completed == { i \in 1..Len(surveyObj) : surveyObj[i].currentQuestion = Len(SURVEY_QUESTIONS) }

\* C32: survey tiers: getTierFromScore maps 25..35 to tier1, 15..24 to tier2
\* and 0..14 to tier3, and the action plan queued after question 12 is the one
\* of the tier of the survey's final total score.
C32_TierOfFinalScore ==
  /\ \A score \in 0..35 :
        getTierFromScore(score) = (CASE score \in 25..35 -> "tier1"
                                     [] score \in 15..24 -> "tier2"
                                     [] score \in 0..14 -> "tier3")
  /\ \A t \in TaskIds :
        tasks[t].path = "survey" /\ tasks[t].pc \in {"thanks", "plan"} =>
           /\ tasks[t].state \in Completed
           /\ surveyObj[tasks[t].state].totalScore = AnswerPoints(surveyObj[tasks[t].state].answers)
           /\ tasks[t].pc = "plan" =>
                 tasks[t].tier = getTierFromScore(surveyObj[tasks[t].state].totalScore)
  /\ \A d \in PlanItems :
        \E i \in Completed :
           /\ d[2] = getTierFromScore(AnswerPoints(surveyObj[i].answers))
           /\ Len(d) = 4 => d[4] = AnswerPoints(surveyObj[i].answers)

\* the whole tier-1 plan was queued for a survey that ended with 25 points or
\* more, while the user had already started the next survey
C32_Witness ==
  /\ <<"plan", "tier1", ACTION_PLANS.tier1 - 1>> \in PlanItems
  /\ \E i \in Completed : surveyObj[i].totalScore >= 25
  /\ Len(surveyObj) = 2

\* the most points an option of question number q carries
BestPoints(q) ==
  LET pts == {SURVEY_QUESTIONS[q].options[k].points : k \in 1..Len(SURVEY_QUESTIONS[q].options)}
  IN CHOOSE p \in pts : \A r \in pts : r <= p

\* every recorded answer of the state object i took an option that carries
\* the most points of its question
BestAnswered(i) ==
  \A q \in 1..Len(surveyObj[i].answers) :
     SURVEY_QUESTIONS[q].openText \/ surveyObj[i].answers[q].points = BestPoints(q)

\* C33: survey score range: the total score is an integer in 0..35 after any
\* accepted answers, question 2 contributes at most 4 points and question 7
\* none, and the maximum total obtainable over the 12 questions is 35: the
\* survey answered throughout with a highest-scoring option ends at 35.
C33_ScoreRange ==
  \A i \in 1..Len(surveyObj) :
     /\ surveyObj[i].totalScore \in 0..35
     /\ Len(surveyObj[i].answers) >= 2 => surveyObj[i].answers[2].points <= 4
     /\ Len(surveyObj[i].answers) >= 7 => surveyObj[i].answers[7].points = 0
     /\ i \in Completed /\ BestAnswered(i) => surveyObj[i].totalScore = 35

(* ------------------- what a queued text costs the budget ---------------- *)
\* the values of f over the set D, added up
RECURSIVE SumOver(_, _)
SumOver(f, D) ==
  IF D = {} THEN 0
  ELSE LET d == CHOOSE x \in D : TRUE IN f[d] + SumOver(f, D \ {d})

\* the units of the rate budget taken so far, over all minute buckets
UnitsTaken == SumOver(rateLimitWindow, DOMAIN rateLimitWindow)

\* history: so far the poller has dispatched emoji texts only, each at most
\* once, nothing else has sent, and every dispatch has come to its end
OnlyQueuedTexts ==
  /\ \A i \in 1..Len(calls) : calls[i].path = "queue" /\ calls[i].msg = EmojiText(Phone, "emoji")
  /\ \A id \in DOMAIN trail.runs : trail.runs[id] = 1
  /\ \A t \in TaskIds : IsFree(t)
  /\ \A i \in 1..Len(messageQueue) : messageQueue[i].messageType = "emoji_response"

\* C34: budget accounting: dispatching one queued text message takes exactly
\* one unit of the rate budget: after the poller has dispatched queued texts
\* and nothing else, the units taken equal the number of texts dispatched.
C34_OneUnitPerText ==
  OnlyQueuedTexts /\ trail.runs # <<>> =>
     UnitsTaken = Cardinality(DOMAIN trail.runs)

(* ------------------------------ the job lock ---------------------------- *)
\* C35: lock hygiene: a job in the queue has locked = true only while a
\* worker execution is processing it, and whatever the gateway answers to the
\* call an execution waits on, an execution that ends leaves its job removed
\* from the queue or in the queue with locked = false.
C35_LockHygiene ==
  /\ \A id \in DOMAIN jobObj : jobsHas(Store, id) /\ jobObj[id].locked => Running(id) # {}
  /\ \A t \in JobCalls : \A res \in HttpResults :
       LET o == Resume(Store, tasks[t], res)
           id == tasks[t].job
           S1 == PathFinish(tasks[t], o)
       IN o.k # "await" => ~jobsHas(S1, id) \/ ~S1.obj[id].locked

\* a worker execution ended in failure and left its job in the queue, counted,
\* unlocked and rescheduled, with no execution running it
C35_Witness ==
  \E id \in DOMAIN jobObj :
     /\ jobsHas(Store, id)
     /\ trail.lastEnd.job = id /\ ~trail.lastEnd.removed
     /\ jobObj[id].attempts >= 1
     /\ ~jobObj[id].locked
     /\ Running(id) = {}

(* -------------------------- the attempts counter ------------------------ *)
\* C36: every job in the retry queue has 0 <= attempts < maxAttempts, a job's
\* attempts counter never decreases, and the admin retry-job operation leaves
\* attempts and maxAttempts as they are: it changes only nextAttemptAt and
\* locked.
C36_AttemptsBounded ==
  [][\A id \in DOMAIN jobObj' :
        /\ jobsHas(Store', id) =>
              0 <= jobObj'[id].attempts /\ jobObj'[id].attempts < jobObj'[id].maxAttempts
        /\ id \in DOMAIN jobObj =>
              /\ jobObj'[id].attempts >= jobObj[id].attempts
              /\ AdminRetryJob(id) =>
                    /\ [jobObj'[id] EXCEPT !.nextAttemptAt = 0, !.locked = FALSE]
                         = [jobObj[id] EXCEPT !.nextAttemptAt = 0, !.locked = FALSE]
                    /\ \A other \in DOMAIN jobObj \ {id} : jobObj'[other] = jobObj[other]
                    /\ jobs' = jobs]_vars

\* a job that failed once was made due at once by the admin operation: it is
\* in the queue, unlocked, with its attempt still counted
C36_Witness ==
  \E id \in DOMAIN jobObj :
     /\ jobsHas(Store, id)
     /\ jobObj[id].attempts >= 1
     /\ jobObj[id].nextAttemptAt = now
     /\ ~jobObj[id].locked

(* ------------------ one sendDocumentRobust per document ----------------- *)
DocTasks == 2
DocRequests == 2

Docs == {DocTv, CombinedDoc(Phone)}

\* POST /admin/send-doc for a document that was not requested before
SendDocOnce(t, msg) ==
  /\ \A i \in 1..Len(calls) : calls[i].msg # msg
  /\ \A u \in TaskIds : tasks[u].msg # msg
  /\ AdminSendDoc(t, msg)

\* time passes until the next sleep(backoff) is over
SleepElapses ==
  LET wakes == {tasks[t].wake : t \in {u \in TaskIds : tasks[u].pc = "sleep"}}
  IN /\ wakes # {}
     /\ \A w \in wakes : now < w
     /\ now' = CHOOSE w \in wakes : \A v \in wakes : w <= v
     /\ UNCHANGED <<rateLimitWindow, sentCache, outboundMessageCache, messageQueue,
                    processingQueue, userInteractionCache, dedupe, surveyStateCache, surveyObj,
                    jobs, jobObj, jobCounter, queueCounter, tasks, calls, accepted, trail,
                    requests, scope>>

NextDoc ==
  \/ \E t \in TaskIds, m \in Docs : SendDocOnce(t, m)
  \/ \E t \in TaskIds, res \in HttpResults : HttpResponse(t, res)
  \/ \E t \in TaskIds : SleepDone(t)
  \/ SleepElapses

InitDoc ==
  Init /\ scope = [tasks |-> DocTasks, requests |-> DocRequests, jobs |-> 0,
                   steps |-> 0, calls |-> TRUE,
                   maxRetries |-> JOB_MAX_RETRIES, step |-> FineStepMs, times |-> FALSE,
                   normalized |-> NormalizedPhones]

\* every gateway call is answered or times out (axios timeout), and every
\* timer fires
SpecDoc ==
  /\ InitDoc /\ [][NextDoc]_vars
  /\ \A t \in TaskIds : WF_vars(\E res \in HttpResults : HttpResponse(t, res))
  /\ \A t \in TaskIds : WF_vars(SleepDone(t))
  /\ WF_vars(SleepElapses)

\* the gateway calls made for the document msg in the encoding enc
DocCalls(msg, enc) == {i \in 1..Len(calls) : calls[i].msg = msg /\ calls[i].enc = enc}

\* one sendDocumentRobust makes at most DOC_RETRIES + 1 JSON and as many
\* multipart calls, is done once the gateway accepted a call, and throws
\* the error it got last
BoundedRounds ==
  /\ \A m \in Docs :
        /\ Cardinality(DocCalls(m, "json")) <= DOC_RETRIES + 1
        /\ Cardinality(DocCalls(m, "multipart")) <= DOC_RETRIES + 1
        /\ m \in DOMAIN accepted => \A t \in TaskIds : tasks[t].msg # m
  /\ \A t \in TaskIds : tasks[t].round <= DOC_RETRIES
  /\ \A t \in TaskIds : \A res \in HttpResults :
        tasks[t].pc \in {"json", "multipart"} =>
           LET o == Resume(Store, tasks[t], res)
           IN /\ res = "ok" => o.k = "return"
              /\ o.k = "throw" => o.res = res /\ ~Returned(res)
              /\ o.k = "throw" /\ ~IsFatal(res) =>
                    tasks[t].pc = "multipart" /\ tasks[t].round = DOC_RETRIES

\* C37: sendDocumentRobust always terminates and makes at most
\* 2 x (DOC_RETRIES + 1) gateway calls per invocation, one JSON and one
\* multipart call per round; it returns at the first success or skipped result
\* and otherwise throws the last error.
C37_RobustTerminates ==
  /\ []BoundedRounds
  /\ \A t \in TaskIds : ~IsFree(t) ~> IsFree(t)

\* an invocation used every call it may make, 2 x (DOC_RETRIES + 1), none
\* accepted, and is over
C37_Witness ==
  \E m \in Docs :
     /\ Cardinality(DocCalls(m, "json")) + Cardinality(DocCalls(m, "multipart"))
          = 2 * (DOC_RETRIES + 1)
     /\ m \notin DOMAIN accepted
     /\ \A t \in TaskIds : tasks[t].msg # m

(* ----------------------- every queued message is sent ------------------- *)
\* the queue item id was created and is neither in the queue nor with a
\* poller any more
Gone(id) ==
  /\ id \in 1..queueCounter
  /\ \A i \in 1..Len(messageQueue) : messageQueue[i].id # id
  /\ id \notin processingQueue
  /\ \A t \in TaskIds : \A i \in 1..Len(tasks[t].rest) : tasks[t].rest[i].id # id

\* C38: delayed-queue liveness: every message in the delayed queue is
\* eventually taken out and a gateway call is made for it or it is skipped as a
\* duplicate; so no message is ever out of the queue and out of the poller's
\* hands with no call made for it and no duplicate skipped.
C38_EveryItemDispatched ==
  \A id \in 1..queueCounter : Gone(id) => id \notin trail.lost

(* -------------------------- which replies count ------------------------- *)
\* the button ids of the questions other than question number q, one for
\* each option the question has
OtherButtons(q) ==
  UNION { { SURVEY_QUESTIONS[p].id \o <<"_">> \o SURVEY_QUESTIONS[p].options[k].id :
              k \in 1..Len(SURVEY_QUESTIONS[p].options) } :
          p \in (1..Len(SURVEY_QUESTIONS)) \ {q} }

\* C39: survey answer acceptance: while the current question is a button
\* question, a button reply is accepted only if its button id belongs to the
\* current question: a reply for any other question, earlier or later, is
\* rejected and leaves currentQuestion, answers and totalScore unchanged.
C39_OnlyCurrentQuestion ==
  LET q == AtQuestion
  IN q # 0 /\ ~SURVEY_QUESTIONS[q].openText =>
       \A b \in OtherButtons(q) :
          LET r == handleSurveyResponse(Store, Phone, b, <<>>, 2000)
          IN ~r.handled /\ r.S.sobj = surveyObj

(* --------------------------- survey progression ------------------------- *)
\* every message a user can send about the survey: a typed text, the keyword,
\* a tap on any button of any question
AnyInbound ==
  {SurveyInbound(<<"o", "k">>, <<>>), SurveyInbound(<<"m", "i", "n", "i", "n", "g">>, <<>>)}
  \cup {SurveyInbound(<<>>, b) : b \in OtherButtons(0)}

\* currentQuestion counts the recorded answers, lies in 0..12, and the survey
\* is active exactly while a question is left
ProgressionShape ==
  \A i \in 1..Len(surveyObj) :
     /\ surveyObj[i].currentQuestion = Len(surveyObj[i].answers)
     /\ surveyObj[i].currentQuestion \in 0..Len(SURVEY_QUESTIONS)
     /\ surveyObj[i].active <=> surveyObj[i].currentQuestion < Len(SURVEY_QUESTIONS)

\* a response that handleSurveyResponse accepts moves the survey on by one
\* question, and one it does not accept changes nothing
AdvancesByOne ==
  LET i == getSurveyState(Store, Phone)
  IN i # 0 =>
       \A in \in AnyInbound :
          LET r == handleSurveyResponse(Store, Phone, in.buttonResponse, in.text, 2000)
          IN IF r.handled
             THEN /\ surveyObj[i].active
                  /\ r.S.sobj[i].currentQuestion = surveyObj[i].currentQuestion + 1
                  /\ Len(r.S.sobj[i].answers) = Len(surveyObj[i].answers) + 1
             ELSE r.S = Store

\* whatever a user with a completed survey sends, the webhook leaves the
\* answers and the total of the user's survey state as they are
CompleteStays ==
  LET i == getSurveyState(Store, Phone)
  IN i \in Completed =>
       \A in \in AnyInbound :
          LET S2 == SurveyFlow(Store, in, 2000).S
              j == getSurveyState(S2, Phone)
          IN /\ S2.sobj[j].answers = surveyObj[i].answers
             /\ S2.sobj[j].totalScore = surveyObj[i].totalScore

\* C40: survey progression: for every user's survey state, currentQuestion
\* equals the number of recorded answers and lies in 0..12, each accepted
\* response advances it by exactly one, active is true exactly while
\* currentQuestion < 12, and once the survey is complete no further response
\* changes its answers or totalScore.
C40_SurveyProgression == ProgressionShape /\ AdvancesByOne /\ CompleteStays

====
